---- MODULE Spec2Model ----
(***************************************************************************)
(* Browser session controller of the Ozon favourite-list scraper:          *)
(* withRetry (utils/retry.ts), OzonBrowser (init, close, saveCookies,      *)
(* navigateWithRetry, executeWithRetry, handleAccessRestriction,           *)
(* simulateHumanBehavior) and OzonService (init, getProducts, close).      *)
(*                                                                         *)
(* The program is single-threaded and asynchronous.  One run of the        *)
(* orchestrator is modelled as a sequential machine: pc is the position    *)
(* of the running code, stack holds the return positions of the pending    *)
(* calls and ret the value (OK or an error) the last finished call         *)
(* produced.  The page, the site and the browser engine are the            *)
(* environment: their answers are chosen with \E.                          *)
(***************************************************************************)
EXTENDS Integers, Sequences, FiniteSets, TLC

VARIABLES
    pc,          \* position of the running code
    stack,       \* return positions of the pending calls
    ret,         \* result of the last finished call: OK or an error
    \* ---- withRetry frame (locals of withRetry, and counts of what it did)
    wrFn,        \* which function withRetry wraps
    wrOpt,       \* the options object the caller passed
    wrAttempt,   \* let attempt
    wrCalls,     \* number of invocations of fn
    wrRetryable, \* number of attempts that failed with an error the policy retries
    wrOnRetry,   \* number of invocations of onRetry
    wrSleeps,    \* number of backoff sleeps
    wrHookErr,   \* TRUE when onRetry itself threw
    fnOpt,       \* simulateHuman / handleChallenge of navigateWithRetry, executeWithRetry
    \* ---- OzonBrowser and OzonService fields
    browserRef,  \* this.browser is not null
    contextRef,  \* this.context is not null
    pageRef,     \* this.page is not null
    initialized, \* OzonService.initialized
    blob,        \* this.cookies, the serialized cookie blob
    \* ---- the environment
    file,        \* the persisted blob, file .cookies
    contextJar,  \* the cookies of the browser context
    page,        \* what the page shows: restriction phrases, challenge marker, captcha
    \* ---- handleAccessRestriction (locals, and counts of what it did)
    hDetected,   \* what the scan found: "none", "selector" or the phrase
    hClicks,     \* completed clicks of the reload control
    hProbed,     \* the captcha probe has run
    \* ---- close() and init() (locals, and what they did)
    closeTried,  \* teardown steps close() has attempted
    closeFailed, \* teardown steps that threw
    savedErr,    \* the error caught by a catch block that runs further code
    diagErr,     \* the failure of the diagnostic capture inside a catch block or hook
    \* ---- withRetry on its own: timing
    wrDelayMs,   \* const delayMs
    wrLog,       \* what withRetry did, in order: invocations, results, hooks, sleeps
    \* ---- tasks sharing one OzonService
    tasks,       \* each task: its position, the page it holds, its pending rethrow
    shared,      \* the OzonService they share, and the engines, contexts, pages open
    \* ---- init(): what it did
    initSteps,   \* the steps the running init() has completed, in order
    \* ---- the helpers and the injected script, each on its own
    scroll,      \* smoothScrollToBottom: its locals and the window it scrolls
    pointer,     \* hoverElementHumanLike / clickElementHumanLike: locals, mouse events
    keys,        \* typeHumanLike: the text, its position in it, the keys pressed
    injector,    \* the injected script: the host it runs in, the overrides applied
    canvas,      \* the canvas readbacks of a page with the overrides installed
    path,        \* createBezierPath: its arguments, random draws and result
    multi,       \* createMultiSegmentPath: its arguments, waypoints and result
    sched,       \* SchedulerService: its fields, its timers, the runs of the callback
    codec        \* saveCookiesToFile and parseCookieString: the jar, the text, the jar read back

retryVars == <<wrFn, wrOpt, wrAttempt, wrCalls, wrRetryable, wrOnRetry,
               wrSleeps, wrHookErr, fnOpt>>
ctlVars == <<browserRef, contextRef, pageRef, initialized>>
cookieVars == <<blob, file, contextJar>>
handlerVars == <<hDetected, hClicks, hProbed>>
closeVars == <<closeTried, closeFailed>>
timedVars == <<wrDelayMs, wrLog, tasks, shared>>
helperVars == <<scroll, pointer, keys, injector, canvas, path, multi, sched, codec>>
extVars == <<timedVars, initSteps, helperVars>>
controllerVars == <<pc, stack, ret, retryVars, ctlVars, cookieVars, page, handlerVars,
                    closeVars, savedErr, diagErr, timedVars, initSteps>>
vars == <<pc, stack, ret, retryVars, ctlVars, cookieVars, page, handlerVars,
          closeVars, savedErr, diagErr, extVars>>

(***************************************************************************)
(* Bounds of the model.                                                    *)
(***************************************************************************)
\* largest maxRetries a caller passes explicitly
MaxRetriesArg == 1
\* number of runs of OzonBrowser.init() in one behaviour of the shared service
MaxInits == 2

(***************************************************************************)
(* Errors.  An error is a record: its message, the HTTP status of          *)
(* error.response (0 when there is none) and the step that raised it.      *)
(***************************************************************************)
OK == [msg |-> "", status |-> 0, from |-> "ok"]

\* An optional field of an options object: Undef when absent, Some(x) when given.
Undef == {}
Some(x) == {x}
Get(o) == CHOOSE x \in o : TRUE

Err(m, s, f) == [msg |-> m, status |-> s, from |-> f]

MsgAccessRestricted == "Access restricted"
MsgCaptcha == "Captcha detected"
MsgTimeout == "Timeout 30000ms exceeded"
MsgNetErr == "net::ERR_CONNECTION_RESET"
MsgClosed == "Target page, context or browser has been closed"
MsgHttp == "Request failed"
MsgPageNotInit == "Page not initialized"
MsgContextNotInit == "Context not initialized"
MsgHook == "onRetry failed"

\* error.message.includes('net::ERR') (case-sensitive, on the raw message)
IncludesNetErr(m) == m = MsgNetErr

\* The entries of retryableErrorMessages that (error.message || '').toLowerCase()
\* includes, for each message the model uses.
LowerIncludes(m) ==
    CASE m = MsgAccessRestricted -> {"access restricted"}
      [] m = MsgTimeout -> {"timeout"}
      [] OTHER -> {}

\* (the Russian entry is written in Latin letters: "dostup ogranichen")
retryableErrorMessages ==
    {"timeout", "econnreset", "econnrefused", "epipe", "etimedout", "socket hang up",
     "network error", "too many requests", "server error", "limit exceeded",
     "dostup ogranichen", "access restricted", "retry"}

\* A mutant of DefaultRetryableErrors: the message list holds the transport failures
\* only, not the restriction phrases.
DefaultRetryableErrorsTransport(e) ==
    IF IncludesNetErr(e.msg) THEN TRUE
    ELSE IF e.status # 0 THEN e.status = 429 \/ (e.status >= 500 /\ e.status < 600)
    ELSE LowerIncludes(e.msg) \cap {"timeout", "econnreset", "etimedout"} # {}

\* A mutant of DefaultRetryableErrors: every error is worth a retry.
DefaultRetryableErrorsAll(e) == TRUE

\* defaultRetryOptions.retryableErrors
DefaultRetryableErrors(e) ==
    IF IncludesNetErr(e.msg) THEN TRUE
    ELSE IF e.status # 0 THEN e.status = 429 \/ (e.status >= 500 /\ e.status < 600)
    ELSE LowerIncludes(e.msg) \cap retryableErrorMessages # {}

defaultMaxRetries == 3

\* maxRetries: options.maxRetries || defaultRetryOptions.maxRetries
MergeMaxRetries(m) == IF m = Undef \/ m = Some(0) THEN defaultMaxRetries ELSE Get(m)

\* retryableErrors: options.retryableErrors || defaultRetryOptions.retryableErrors
\* A caller-supplied classifier is given by the set of messages it accepts.
IsRetryable(opt, e) ==
    IF opt.retryableErrors = Undef THEN DefaultRetryableErrors(e)
    ELSE e.msg \in Get(opt.retryableErrors)

\* The errors an action wrapped by a caller of withRetry may fail with.
ActionErrors ==
    {Err(MsgTimeout, 0, "action"), Err(MsgNetErr, 0, "action"),
     Err(MsgClosed, 0, "action"), Err(MsgHttp, 429, "action"),
     Err(MsgHttp, 404, "action")}

\* The classifiers a caller may supply.
Classifiers == {Undef, Some({MsgTimeout, MsgHttp}), Some({MsgClosed})}

\* The options objects a generic caller passes.
GenericOptions ==
    [maxRetries : {Undef} \cup {Some(n) : n \in 0..MaxRetriesArg},
     retryableErrors : Classifiers]


(***************************************************************************)
(* The environment: cookies, page content, page failures, human motion.    *)
(***************************************************************************)
\* "sid" is the persisted session cookie of ozon.ru; the site may set "abt" (domain
\* .ozon.ru) and "ext" (a third-party domain) while a page loads.
SiteCookies == {"abt", "ext"}
InitialBlob == {"sid"}

\* saveCookies: cookie.domain?.includes('ozon.ru') || cookie.domain?.includes('.ozon.ru')
RelevantCookies(jar) == jar \ {"ext"}

\* restrictionIndicators, in the order the scan tries them
\* (the Russian phrase is written in Latin letters)
PhraseRU == "Dostup ogranichen"
restrictionIndicators == <<PhraseRU, "Access denied", "Access restricted">>
Phrases == {restrictionIndicators[i] : i \in 1..Len(restrictionIndicators)}

PageStates == [phrases : SUBSET Phrases, marker : BOOLEAN, captcha : BOOLEAN]
BlankPage == [phrases |-> {}, marker |-> FALSE, captcha |-> FALSE]

\* A page, mouse or browser operation that fails: it times out or its target is gone.
PageErrors(f) == {Err(MsgTimeout, 0, f), Err(MsgClosed, 0, f)}

\* simulateHumanBehavior runs 5-8 weighted random actions and then initialises the
\* stored mouse position.  failStep is the step during which a page operation first
\* fails.  Only "moveToElement" wraps its body in try/catch.
MotionSteps == {"moveToElement", "scroll", "randomMove", "pause", "initMousePosition"}
SimulateHumanBehavior(failStep, e) ==
    IF failStep \in {"none", "moveToElement"} THEN OK ELSE e
MotionResults ==
    {SimulateHumanBehavior(fs, e) : fs \in {"none"} \cup MotionSteps,
                                    e \in PageErrors("motion")}

(***************************************************************************)
(* Calls and returns.                                                      *)
(***************************************************************************)
Call(entry, cont) == pc' = entry /\ stack' = <<cont>> \o stack

Return(v) == pc' = Head(stack) /\ stack' = Tail(stack) /\ ret' = v

Goto(l) == pc' = l /\ UNCHANGED <<stack, ret>>

NoOptions == [maxRetries |-> Undef, retryableErrors |-> Undef]
NoFnOptions == [simulateHuman |-> FALSE, handleChallenge |-> FALSE]

\* No helper is running.
HelpersIdle ==
    /\ scroll = <<>>
    /\ pointer = <<>>
    /\ keys = <<>>
    /\ injector = <<>>
    /\ canvas = <<>>
    /\ path = <<>>
    /\ multi = <<>>
    /\ sched = <<>>
    /\ codec = <<>>

\* The controller and the service as constructed, nothing in progress.
ControllerIdle ==
    /\ pc = "idle"
    /\ stack = <<>>
    /\ ret = OK
    /\ wrFn = "none"
    /\ wrOpt = NoOptions
    /\ wrAttempt = 0
    /\ wrCalls = 0
    /\ wrRetryable = 0
    /\ wrOnRetry = 0
    /\ wrSleeps = 0
    /\ wrHookErr = FALSE
    /\ fnOpt = NoFnOptions
    /\ browserRef = FALSE
    /\ contextRef = FALSE
    /\ pageRef = FALSE
    /\ initialized = FALSE
    /\ blob = InitialBlob
    /\ file = InitialBlob
    /\ contextJar = {}
    /\ page = BlankPage
    /\ hDetected = "none"
    /\ hClicks = 0
    /\ hProbed = FALSE
    /\ closeTried = {}
    /\ closeFailed = {}
    /\ savedErr = OK
    /\ diagErr = OK
    /\ wrDelayMs = 0
    /\ wrLog = <<>>
    /\ initSteps = <<>>
    /\ tasks = <<>>
    /\ shared = <<>>

Init == ControllerIdle /\ HelpersIdle

\* A top-level operation has returned to the orchestrator.  The locals of the finished
\* calls are dropped.  What the page shows between two operations is not observed:
\* every scan of it follows a navigation or an action, after which the site chooses
\* the content anew.
Finish ==
    /\ pc = "op_done"
    /\ pc' = "idle"
    /\ stack' = <<>>
    /\ ret' = OK
    /\ wrFn' = "none"
    /\ wrOpt' = NoOptions
    /\ wrAttempt' = 0
    /\ wrCalls' = 0
    /\ wrRetryable' = 0
    /\ wrOnRetry' = 0
    /\ wrSleeps' = 0
    /\ wrHookErr' = FALSE
    /\ fnOpt' = NoFnOptions
    /\ page' = BlankPage
    /\ hDetected' = "none"
    /\ hClicks' = 0
    /\ hProbed' = FALSE
    /\ closeTried' = {}
    /\ closeFailed' = {}
    /\ savedErr' = OK
    /\ diagErr' = OK
    /\ initSteps' = <<>>
    /\ UNCHANGED <<ctlVars, cookieVars, timedVars, helperVars>>

\* The orchestrator starts a top-level operation at entry.
StartOp(entry) ==
    /\ pc = "idle"
    /\ pc' = entry
    /\ stack' = <<"op_done">>
    /\ UNCHANGED ret

(***************************************************************************)
(* withRetry(fn, options)                                                  *)
(***************************************************************************)
\* The locals of a fresh invocation of withRetry.
WithRetryEnter(fn, opt) ==
    /\ wrFn' = fn
    /\ wrOpt' = opt
    /\ wrAttempt' = 0
    /\ wrCalls' = 0
    /\ wrRetryable' = 0
    /\ wrOnRetry' = 0
    /\ wrSleeps' = 0
    /\ wrHookErr' = FALSE

\* A caller wraps an action of its own: withRetry(fn, options).
CallGenericWithRetry ==
    /\ StartOp("wr_loop")
    /\ \E opt \in GenericOptions : WithRetryEnter("generic", opt)
    /\ UNCHANGED <<fnOpt, ctlVars, cookieVars, page, handlerVars, closeVars, savedErr, diagErr, extVars>>

\* The first position of the wrapped function.
FnEntry(fn) ==
    CASE fn = "navigate" -> "nav_goto"
      [] fn = "execute" -> "exec_action"
      [] fn = "screenshot" -> "fn_screenshot"
      [] OTHER -> "fn_generic"

\* while (attempt <= maxRetries) { try { return await fn() }
WR_Invoke ==
    /\ pc = "wr_loop"
    /\ wrAttempt <= MergeMaxRetries(wrOpt.maxRetries)
    /\ wrCalls' = wrCalls + 1
    /\ Call(FnEntry(wrFn), "wr_settle")
    /\ UNCHANGED <<ret, wrFn, wrOpt, wrAttempt, wrRetryable, wrOnRetry,
                   wrSleeps, wrHookErr, fnOpt, ctlVars, cookieVars, page, handlerVars,
                   closeVars, savedErr, diagErr, extVars>>

\* The caller's action: it resolves or rejects.
FnGeneric ==
    /\ pc = "fn_generic"
    /\ \E r \in {OK} \cup ActionErrors : Return(r)
    /\ UNCHANGED <<retryVars, ctlVars, cookieVars, page, handlerVars, closeVars,
                   savedErr, diagErr, extVars>>

\* return await fn(): the result of a successful attempt is the result of withRetry.
WR_Return ==
    /\ pc = "wr_settle"
    /\ ret = OK
    /\ Return(OK)
    /\ UNCHANGED <<retryVars, ctlVars, cookieVars, page, handlerVars, closeVars,
                   savedErr, diagErr, extVars>>

\* A mutant of CatchDecision: the classifier is not consulted.
CatchDecisionUnclassified(attempt, maxRetries, retryable) ==
    IF attempt > maxRetries THEN "throw" ELSE "retry"

\* The catch block after attempt++: rethrow when the attempts are exhausted, rethrow
\* when the error is not retryable, otherwise retry.
CatchDecision(attempt, maxRetries, retryable) ==
    IF attempt > maxRetries THEN "throw"
    ELSE IF ~retryable THEN "throw"
    ELSE "retry"

\* catch (error) { lastError = error; attempt++; ... }  (lastError is only logged)
WR_Catch ==
    /\ pc = "wr_settle"
    /\ ret # OK
    /\ wrAttempt' = wrAttempt + 1
    /\ wrRetryable' = wrRetryable + (IF IsRetryable(wrOpt, ret) THEN 1 ELSE 0)
    /\ IF CatchDecision(wrAttempt + 1, MergeMaxRetries(wrOpt.maxRetries),
                        IsRetryable(wrOpt, ret)) = "throw"
         THEN Return(ret)
         ELSE Goto("wr_onretry")
    /\ UNCHANGED <<wrFn, wrOpt, wrCalls, wrOnRetry, wrSleeps, wrHookErr, fnOpt,
                   ctlVars, cookieVars, page, handlerVars, closeVars, savedErr, diagErr, extVars>>

\* await retryOptions.onRetry(error, attempt, delayMs), the hook of a generic caller:
\* it returns, or it throws out of withRetry.
WR_OnRetryGeneric ==
    /\ pc = "wr_onretry"
    /\ wrFn = "generic"
    /\ wrOnRetry' = wrOnRetry + 1
    /\ \/ Goto("wr_delay") /\ UNCHANGED wrHookErr
       \/ Return(Err(MsgHook, 0, "onRetry")) /\ wrHookErr' = TRUE
    /\ UNCHANGED <<wrFn, wrOpt, wrAttempt, wrCalls, wrRetryable,
                   wrSleeps, fnOpt, ctlVars, cookieVars, page, handlerVars, closeVars,
                   savedErr, diagErr, extVars>>

\* loadCookies(context, cookiesString): context.addCookies(parsed blob); a failure is
\* caught and logged.  The blobs the program handles are well-formed and load; without
\* a context addCookies fails and the jar stays as it is.
LoadCookies(jar, cookiesString, hasContext) ==
    IF hasContext THEN jar \cup cookiesString ELSE jar

\* A mutant of OnRetryCleanup: the cleanup runs on every retry.
OnRetryCleanupEveryRetry(attempt, jar, cookiesString, hasContext) ==
    {jar, LoadCookies(IF hasContext THEN {} ELSE jar, cookiesString, hasContext)}

\* The cleanup of navigateWithRetry's onRetry from the second retry on: clear the
\* page storage, this.context?.clearCookies(), then reload this.cookies.  Any failure
\* ends the cleanup silently.  The jars the context may hold afterwards.
OnRetryCleanup(attempt, jar, cookiesString, hasContext) ==
    IF attempt > 1
      THEN {jar, LoadCookies(IF hasContext THEN {} ELSE jar, cookiesString, hasContext)}
      ELSE {jar}

\* What page.screenshot() inside an onRetry hook may do.
ScreenshotResults == {OK} \cup PageErrors("onRetryScreenshot")

\* try { await page.screenshot(...) } catch { /* ignore screenshot errors */ }
OnRetryScreenshotCatch(e) == OK

\* The hook has run its screenshot with result d: it goes on, or the failure leaves
\* the hook and with it withRetry.
AfterScreenshot(d) ==
    /\ diagErr' = d
    /\ IF OnRetryScreenshotCatch(d) = OK
         THEN Goto("wr_delay") /\ UNCHANGED wrHookErr
         ELSE Return(OnRetryScreenshotCatch(d)) /\ wrHookErr' = TRUE

\* onRetry of navigateWithRetry: a guarded screenshot, then the cleanup.
WR_OnRetryNavigate ==
    /\ pc = "wr_onretry"
    /\ wrFn = "navigate"
    /\ wrOnRetry' = wrOnRetry + 1
    /\ \E d \in ScreenshotResults : AfterScreenshot(d)
    /\ \E jar \in OnRetryCleanup(wrAttempt, contextJar, blob, contextRef) :
           contextJar' = jar
    /\ UNCHANGED <<wrFn, wrOpt, wrAttempt, wrCalls, wrRetryable,
                   wrSleeps, fnOpt, ctlVars, blob, file, page, handlerVars,
                   closeVars, savedErr, extVars>>

\* onRetry of executeWithRetry: a guarded screenshot.
WR_OnRetryExecute ==
    /\ pc = "wr_onretry"
    /\ wrFn = "execute"
    /\ wrOnRetry' = wrOnRetry + 1
    /\ \E d \in ScreenshotResults : AfterScreenshot(d)
    /\ UNCHANGED <<wrFn, wrOpt, wrAttempt, wrCalls, wrRetryable,
                   wrSleeps, fnOpt, ctlVars, cookieVars, page, handlerVars,
                   closeVars, savedErr, extVars>>

\* await delay(delayMs), then the next iteration of the loop
WR_Delay ==
    /\ pc = "wr_delay"
    /\ wrSleeps' = wrSleeps + 1
    /\ diagErr' = OK
    /\ Goto("wr_loop")
    /\ UNCHANGED <<wrFn, wrOpt, wrAttempt, wrCalls, wrRetryable,
                   wrOnRetry, wrHookErr, fnOpt, ctlVars, cookieVars, page, handlerVars,
                   closeVars, savedErr, extVars>>

(***************************************************************************)
(* handleAccessRestriction(page)                                           *)
(***************************************************************************)
\* The first restriction indicator the page content includes, "none" without one.
FirstIndicator(phrases) ==
    IF \E i \in 1..Len(restrictionIndicators) : restrictionIndicators[i] \in phrases
      THEN restrictionIndicators[
             CHOOSE i \in 1..Len(restrictionIndicators) :
                /\ restrictionIndicators[i] \in phrases
                /\ \A j \in 1..(i - 1) : restrictionIndicators[j] \notin phrases]
      ELSE "none"

\* The re-checks look for the Russian phrase alone.
StillRestricted(p) == PhraseRU \in p.phrases

\* error.message.includes('Captcha') || error.message.includes('Access restricted')
IsExplicitThrow(e) == e.msg \in {MsgCaptcha, MsgAccessRestricted}

\* The outer catch: an explicit throw propagates, anything else is taken for
\* "no challenge detected".
OuterCatch(e) == IF IsExplicitThrow(e) THEN e ELSE OK

\* The inner catch: an explicit throw propagates, anything else leads to one last
\* look at the page content.
InnerCatch(e) == IF IsExplicitThrow(e) THEN "h_rethrow" ELSE "h_lastcheck"

\* A mutant of AfterScan: the handler works on the page whatever the scan found.
AfterScanAlways(detected) == "h_sim1"

AfterScan(detected) == IF detected = "none" THEN "h_end" ELSE "h_sim1"

AfterFirstClick(clicked) == IF clicked THEN "h_check1" ELSE "h_probe"

AfterFirstCheck(still) == IF still THEN "h_sim2" ELSE "h_end"

\* A mutant of AfterSecondCheck: a restriction that persists is tried once more.
AfterSecondCheckAgain(still) == IF still THEN "h_sim2" ELSE "h_end"

AfterSecondCheck(still) == IF still THEN "h_throw_ar" ELSE "h_end"

\* A mutant of AfterProbe: the result of the probe is ignored.
AfterProbeIgnored(captchaExists) == "h_sim3"

AfterProbe(captchaExists) == IF captchaExists THEN "h_throw_captcha" ELSE "h_sim3"

AfterFallbackCheck(still) == IF still THEN "h_throw_ar" ELSE "h_end"

\* The handler moves on to position l.  throw new Error('Access restricted') and
\* throw new Error('Captcha detected') pass both catch blocks and settle the handler.
HGoto(l) ==
    IF l \in {"h_throw_ar", "h_throw_captcha"}
      THEN LET e == IF l = "h_throw_ar" THEN Err(MsgAccessRestricted, 0, "handler")
                    ELSE Err(MsgCaptcha, 0, "handler")
           IN /\ pc' = IF InnerCatch(e) = "h_rethrow" THEN "h_end" ELSE InnerCatch(e)
              /\ ret' = OuterCatch(e)
      ELSE pc' = l /\ UNCHANGED ret

HandlerFrame == UNCHANGED <<stack, retryVars, ctlVars, cookieVars, closeVars, savedErr, diagErr, extVars>>

\* The selector loop and the content scan.  page.content() may fail: the outer catch
\* takes that for "no challenge".
H_Scan ==
    /\ pc = "h_scan"
    /\ hClicks' = 0
    /\ hProbed' = FALSE
    /\ ret' = OK
    /\ \/ /\ page.marker
          /\ hDetected' = "selector"
          /\ pc' = AfterScan("selector")
       \/ /\ ~page.marker
          /\ hDetected' = FirstIndicator(page.phrases)
          /\ pc' = AfterScan(FirstIndicator(page.phrases))
       \/ /\ ~page.marker
          /\ \E e \in PageErrors("handler") : OuterCatch(e) = OK
          /\ hDetected' = "none"
          /\ pc' = "h_end"
    /\ UNCHANGED page
    /\ HandlerFrame

\* Evidence (guarded), then simulateHumanBehavior outside the inner try: its failure
\* reaches the outer catch.
H_Simulate1 ==
    /\ pc = "h_sim1"
    /\ \E r \in MotionResults :
          IF r = OK THEN pc' = "h_click1" /\ ret' = OK
          ELSE pc' = "h_end" /\ ret' = OuterCatch(r)
    /\ UNCHANGED <<page, handlerVars>>
    /\ HandlerFrame

\* clickElementHumanLike(page, '#reload-button'): true after a completed click, false
\* otherwise.  A click makes the site serve the page anew.
H_Click1 ==
    /\ pc = "h_click1"
    /\ \/ /\ hClicks' = hClicks + 1
          /\ \E p \in PageStates : page' = p
          /\ pc' = AfterFirstClick(TRUE)
       \/ /\ UNCHANGED <<hClicks, page>>
          /\ pc' = AfterFirstClick(FALSE)
    /\ UNCHANGED <<ret, hDetected, hProbed>>
    /\ HandlerFrame

\* const stillRestricted = await page.evaluate(...)
H_Check1 ==
    /\ pc = "h_check1"
    /\ \/ HGoto(AfterFirstCheck(StillRestricted(page)))
       \/ \E e \in PageErrors("handler") : HGoto(InnerCatch(e))
    /\ UNCHANGED <<page, handlerVars>>
    /\ HandlerFrame

\* "Try again with more human behavior before giving up"
H_Simulate2 ==
    /\ pc = "h_sim2"
    /\ \E r \in MotionResults :
          HGoto(IF r = OK THEN "h_click2" ELSE InnerCatch(r))
    /\ UNCHANGED <<page, handlerVars>>
    /\ HandlerFrame

\* const secondAttempt = await clickElementHumanLike(...)
H_Click2 ==
    /\ pc = "h_click2"
    /\ \/ /\ hClicks' = hClicks + 1
          /\ \E p \in PageStates : page' = p
       \/ UNCHANGED <<hClicks, page>>
    /\ pc' = "h_check2"
    /\ UNCHANGED <<ret, hDetected, hProbed>>
    /\ HandlerFrame

\* const stillRestrictedAfterRetry = await page.evaluate(...)
H_Check2 ==
    /\ pc = "h_check2"
    /\ \/ HGoto(AfterSecondCheck(StillRestricted(page)))
       \/ \E e \in PageErrors("handler") : HGoto(InnerCatch(e))
    /\ UNCHANGED <<page, handlerVars>>
    /\ HandlerFrame

\* No reload button: const captchaExists = await page.evaluate(...)
H_Probe ==
    /\ pc = "h_probe"
    /\ \/ hProbed' = TRUE /\ HGoto(AfterProbe(page.captcha))
       \/ \E e \in PageErrors("handler") : HGoto(InnerCatch(e)) /\ UNCHANGED hProbed
    /\ UNCHANGED <<page, hDetected, hClicks>>
    /\ HandlerFrame

\* "As a last resort": simulateHumanBehavior, a delay, then the content check.
H_Fallback ==
    /\ pc = "h_sim3"
    /\ \/ \E r \in MotionResults :
             HGoto(IF r = OK THEN AfterFallbackCheck(StillRestricted(page))
                   ELSE InnerCatch(r))
       \/ \E e \in PageErrors("handler") : HGoto(InnerCatch(e))
    /\ UNCHANGED <<page, handlerVars>>
    /\ HandlerFrame

\* The inner catch, for an error that is no explicit throw: one last content check,
\* whose own failure reaches the outer catch.
H_LastCheck ==
    /\ pc = "h_lastcheck"
    /\ \/ HGoto(AfterFallbackCheck(StillRestricted(page)))
       \/ \E e \in PageErrors("handler") : pc' = "h_end" /\ ret' = OuterCatch(e)
    /\ UNCHANGED <<page, handlerVars>>
    /\ HandlerFrame

\* handleAccessRestriction settles: it returns, or it rejects with ret.  Its locals
\* are dropped, and so is the page content: nothing but the handler reads it.
H_End ==
    /\ pc = "h_end"
    /\ Return(ret)
    /\ page' = BlankPage
    /\ hDetected' = "none"
    /\ hClicks' = 0
    /\ hProbed' = FALSE
    /\ UNCHANGED <<retryVars, ctlVars, cookieVars, closeVars, savedErr, diagErr, extVars>>

(***************************************************************************)
(* navigateWithRetry(url, options) and executeWithRetry(action, options)   *)
(***************************************************************************)
\* const { maxRetries = 3, ... } = options
DestructureMaxRetries(m) == IF m = Undef THEN 3 ELSE Get(m)

\* The options a caller of navigateWithRetry or executeWithRetry passes: the callers
\* in the repository pass a positive maxRetries or none.
NavigateOptions ==
    [maxRetries : {Undef} \cup {Some(n) : n \in 1..MaxRetriesArg},
     simulateHuman : BOOLEAN, handleChallenge : BOOLEAN]

\* The orchestrator calls navigateWithRetry.
CallNavigate ==
    /\ StartOp("nav_enter")
    /\ \E o \in NavigateOptions : fnOpt' = o
    /\ UNCHANGED <<wrFn, wrOpt, wrAttempt, wrCalls, wrRetryable, wrOnRetry,
                   wrSleeps, wrHookErr, ctlVars, cookieVars, page, handlerVars, closeVars,
                   savedErr, diagErr, extVars>>

\* The orchestrator calls executeWithRetry.
CallExecute ==
    /\ StartOp("exec_enter")
    /\ \E o \in NavigateOptions : fnOpt' = o
    /\ UNCHANGED <<wrFn, wrOpt, wrAttempt, wrCalls, wrRetryable, wrOnRetry,
                   wrSleeps, wrHookErr, ctlVars, cookieVars, page, handlerVars, closeVars,
                   savedErr, diagErr, extVars>>

\* A mutant of RequirePage: the page is used without the check.
RequirePageUnchecked(hasPage, who) == OK

\* if (!this.page) { throw new Error('Page not initialized') }
RequirePage(hasPage, who) == IF hasPage THEN OK ELSE Err(MsgPageNotInit, 0, who)

\* if (!this.page) throw new Error('Page not initialized'); await withRetry(...)
EnterWithRetry(label, fn) ==
    /\ pc = label
    /\ IF RequirePage(pageRef, fn) # OK
         THEN /\ Return(RequirePage(pageRef, fn))
              /\ UNCHANGED <<wrFn, wrOpt, wrAttempt, wrCalls, wrRetryable,
                             wrOnRetry, wrSleeps, wrHookErr>>
         ELSE /\ WithRetryEnter(fn, [maxRetries |-> Some(DestructureMaxRetries(fnOpt.maxRetries)),
                                     retryableErrors |-> Undef])
              /\ Goto("wr_loop")
    /\ UNCHANGED <<fnOpt, ctlVars, cookieVars, page, handlerVars, closeVars, savedErr, diagErr, extVars>>

NavEnter == EnterWithRetry("nav_enter", "navigate")

ExecEnter == EnterWithRetry("exec_enter", "execute")

\* The orchestrator calls getPage(): the page, or the not-initialised error.
CallGetPage ==
    /\ StartOp("getpage")
    /\ UNCHANGED <<retryVars, ctlVars, cookieVars, page, handlerVars, closeVars,
                   savedErr, diagErr, extVars>>

GetPage ==
    /\ pc = "getpage"
    /\ Return(RequirePage(pageRef, "getPage"))
    /\ UNCHANGED <<retryVars, ctlVars, cookieVars, page, handlerVars, closeVars,
                   savedErr, diagErr, extVars>>

\* The orchestrator calls takeScreenshot(path).
CallTakeScreenshot ==
    /\ StartOp("shot_enter")
    /\ UNCHANGED <<retryVars, ctlVars, cookieVars, page, handlerVars, closeVars,
                   savedErr, diagErr, extVars>>

\* takeScreenshot: the page check, then withRetry(screenshot, { maxRetries: 2, ... })
ShotEnter ==
    /\ pc = "shot_enter"
    /\ IF RequirePage(pageRef, "takeScreenshot") # OK
         THEN /\ Return(RequirePage(pageRef, "takeScreenshot"))
              /\ UNCHANGED <<wrFn, wrOpt, wrAttempt, wrCalls, wrRetryable,
                             wrOnRetry, wrSleeps, wrHookErr>>
         ELSE /\ WithRetryEnter("screenshot", [maxRetries |-> Some(2),
                                               retryableErrors |-> Undef])
              /\ Goto("wr_loop")
    /\ UNCHANGED <<fnOpt, ctlVars, cookieVars, page, handlerVars, closeVars, savedErr,
                   diagErr, extVars>>

\* return await this.page!.screenshot({ fullPage: true, path })
FnScreenshot ==
    /\ pc = "fn_screenshot"
    /\ \E r \in {OK} \cup PageErrors("screenshot") : Return(r)
    /\ UNCHANGED <<retryVars, ctlVars, cookieVars, page, handlerVars, closeVars,
                   savedErr, diagErr, extVars>>

\* defaultRetryOptions.onRetry, the hook of takeScreenshot's withRetry: it logs.
WR_OnRetryDefault ==
    /\ pc = "wr_onretry"
    /\ wrFn = "screenshot"
    /\ wrOnRetry' = wrOnRetry + 1
    /\ Goto("wr_delay")
    /\ UNCHANGED <<wrFn, wrOpt, wrAttempt, wrCalls, wrRetryable,
                   wrSleeps, wrHookErr, fnOpt, ctlVars, cookieVars, page, handlerVars,
                   closeVars, savedErr, diagErr, extVars>>

\* The options savePageHtml passes to executeWithRetry.
SavePageHtmlOptions ==
    [maxRetries |-> Some(2), simulateHuman |-> FALSE, handleChallenge |-> TRUE]

\* The orchestrator calls savePageHtml(path).
CallSavePageHtml ==
    /\ StartOp("html_enter")
    /\ UNCHANGED <<retryVars, ctlVars, cookieVars, page, handlerVars, closeVars,
                   savedErr, diagErr, extVars>>

\* savePageHtml: the page check, then executeWithRetry(page.content + write, ...)
HtmlEnter ==
    /\ pc = "html_enter"
    /\ IF RequirePage(pageRef, "savePageHtml") # OK
         THEN Return(RequirePage(pageRef, "savePageHtml")) /\ UNCHANGED fnOpt
         ELSE fnOpt' = SavePageHtmlOptions /\ Goto("exec_enter")
    /\ UNCHANGED <<wrFn, wrOpt, wrAttempt, wrCalls, wrRetryable, wrOnRetry,
                   wrSleeps, wrHookErr, ctlVars, cookieVars, page, handlerVars, closeVars,
                   savedErr, diagErr, extVars>>

\* What a navigation may fail with.
GotoErrors == {Err(MsgTimeout, 0, "goto"), Err(MsgNetErr, 0, "goto"), Err(MsgClosed, 0, "goto")}

\* await page.goto(url): the site serves a page and may set cookies, or the
\* navigation fails.  next is the position after a successful navigation.
PageGoto(next) ==
    \/ /\ \E p \in PageStates : page' = p
       /\ \E set \in {{}, SiteCookies} : contextJar' = contextJar \cup set
       /\ pc' = next
       /\ UNCHANGED <<stack, ret>>
    \/ /\ \E e \in GotoErrors : Return(e)
       /\ UNCHANGED <<page, contextJar>>

\* The wrapped function of navigateWithRetry: goto, a delay, then the handler.
NavGoto ==
    /\ pc = "nav_goto"
    /\ PageGoto("nav_handle")
    /\ UNCHANGED <<retryVars, ctlVars, blob, file, handlerVars, closeVars, savedErr, diagErr, extVars>>

\* The wrapped function of executeWithRetry: the caller's page action.
ExecAction ==
    /\ pc = "exec_action"
    /\ \/ /\ \E p \in PageStates : page' = p
          /\ Goto("nav_handle")
       \/ /\ \E e \in ActionErrors : Return(e)
          /\ UNCHANGED page
    /\ UNCHANGED <<retryVars, ctlVars, cookieVars, handlerVars, closeVars, savedErr, diagErr, extVars>>

\* if (handleChallenge) await this.handleAccessRestriction(page)
FnHandle ==
    /\ pc = "nav_handle"
    /\ IF fnOpt.handleChallenge
         THEN Call("h_scan", "nav_handled") /\ UNCHANGED ret
         ELSE pc' = "nav_simulate" /\ ret' = OK /\ UNCHANGED stack
    /\ page' = IF fnOpt.handleChallenge THEN page ELSE BlankPage
    /\ UNCHANGED <<retryVars, ctlVars, cookieVars, handlerVars, closeVars, savedErr, diagErr, extVars>>

\* The handler has settled: its rejection rejects the wrapped function.
FnHandled ==
    /\ pc = "nav_handled"
    /\ IF ret = OK THEN Goto("nav_simulate") ELSE Return(ret)
    /\ UNCHANGED <<retryVars, ctlVars, cookieVars, page, handlerVars, closeVars,
                   savedErr, diagErr, extVars>>

\* if (simulateHuman) await this.simulateHumanBehavior(page); the function resolves.
FnSimulate ==
    /\ pc = "nav_simulate"
    /\ IF fnOpt.simulateHuman
         THEN \E r \in MotionResults : Return(r)
         ELSE Return(OK)
    /\ UNCHANGED <<retryVars, ctlVars, cookieVars, page, handlerVars, closeVars,
                   savedErr, diagErr, extVars>>

(***************************************************************************)
(* OzonBrowser.saveCookies(), close() and init()                           *)
(***************************************************************************)
\* saveCookies(): throws without a context; reads the context's cookies, keeps the
\* ozon.ru ones, writes the file and then this.cookies.  r is its result.
SaveCookies(r) ==
    \/ /\ contextRef
       /\ r = OK
       /\ file' = RelevantCookies(contextJar)
       /\ blob' = RelevantCookies(contextJar)
    \/ /\ contextRef
       /\ r \in PageErrors("saveCookies")
       /\ UNCHANGED <<blob, file>>
    \/ /\ ~contextRef
       /\ r = Err(MsgContextNotInit, 0, "saveCookies")
       /\ UNCHANGED <<blob, file>>

SaveCookiesResults ==
    {OK, Err(MsgContextNotInit, 0, "saveCookies")} \cup PageErrors("saveCookies")

\* A mutant of CloseCatch: the error of a teardown step propagates.
CloseCatchRethrow(e) == e

\* The outer catch of close(): the error is logged.
CloseCatch(e) == OK

\* A mutant of AfterCloseStep: the context is closed before the page.
AfterCloseStepContextFirst(step) ==
    CASE step = "close_save" -> "close_context"
      [] step = "close_context" -> "close_page"
      [] OTHER -> "close_browser"

\* The statements of close()'s try block, in program order: the step that follows
\* step when step has completed.
AfterCloseStep(step) ==
    CASE step = "close_save" -> "close_page"
      [] step = "close_page" -> "close_context"
      [] OTHER -> "close_browser"

\* A teardown step that throws leaves the try block.
AfterCloseFailure(next) == "close_end"

CloseFrame == UNCHANGED <<stack, retryVars, initialized, page, handlerVars, savedErr, diagErr, timedVars, helperVars>>

\* if (this.context) { try { await this.saveCookies() } catch { log } }
Close_Save ==
    /\ pc = "close_save"
    /\ ret' = OK
    /\ closeFailed' = {}
    /\ IF contextRef
         THEN /\ closeTried' = {"cookies"}
              /\ \E r \in SaveCookiesResults : SaveCookies(r)
         ELSE /\ closeTried' = {}
              /\ UNCHANGED <<blob, file>>
    /\ pc' = AfterCloseStep("close_save")
    /\ UNCHANGED <<browserRef, contextRef, pageRef, contextJar>>
    /\ CloseFrame
    /\ UNCHANGED initSteps

\* if (this.page) { await this.page.close(); this.page = null }
Close_Page ==
    /\ pc = "close_page"
    /\ IF pageRef
         THEN /\ closeTried' = closeTried \cup {"page"}
              /\ \/ /\ pageRef' = FALSE
                    /\ pc' = AfterCloseStep("close_page")
                    /\ UNCHANGED <<ret, closeFailed>>
                 \/ /\ \E e \in PageErrors("close") : ret' = CloseCatch(e)
                    /\ closeFailed' = closeFailed \cup {"page"}
                    /\ pc' = AfterCloseFailure(AfterCloseStep("close_page"))
                    /\ UNCHANGED pageRef
         ELSE /\ pc' = AfterCloseStep("close_page")
              /\ UNCHANGED <<ret, pageRef, closeVars>>
    /\ UNCHANGED <<browserRef, contextRef, cookieVars>>
    /\ CloseFrame
    /\ UNCHANGED initSteps

\* if (this.context) { await this.context.close(); this.context = null }
\* The cookies of a closed context are gone with it.
Close_Context ==
    /\ pc = "close_context"
    /\ IF contextRef
         THEN /\ closeTried' = closeTried \cup {"context"}
              /\ \/ /\ contextRef' = FALSE
                    /\ contextJar' = {}
                    /\ UNCHANGED initSteps
                    /\ pc' = AfterCloseStep("close_context")
                    /\ UNCHANGED <<ret, closeFailed>>
                 \/ /\ \E e \in PageErrors("close") : ret' = CloseCatch(e)
                    /\ closeFailed' = closeFailed \cup {"context"}
                    /\ pc' = AfterCloseFailure(AfterCloseStep("close_context"))
                    /\ UNCHANGED <<contextRef, contextJar, initSteps>>
         ELSE /\ pc' = AfterCloseStep("close_context")
              /\ UNCHANGED <<ret, contextRef, contextJar, closeVars, initSteps>>
    /\ UNCHANGED <<browserRef, pageRef, blob, file>>
    /\ CloseFrame

\* if (this.browser) { await this.browser.close(); this.browser = null }
Close_Browser ==
    /\ pc = "close_browser"
    /\ IF browserRef
         THEN /\ closeTried' = closeTried \cup {"browser"}
              /\ \/ /\ browserRef' = FALSE
                    /\ UNCHANGED <<ret, closeFailed>>
                 \/ /\ \E e \in PageErrors("close") : ret' = CloseCatch(e)
                    /\ closeFailed' = closeFailed \cup {"browser"}
                    /\ UNCHANGED browserRef
         ELSE UNCHANGED <<ret, browserRef, closeVars>>
    /\ pc' = "close_end"
    /\ UNCHANGED <<contextRef, pageRef, cookieVars>>
    /\ CloseFrame
    /\ UNCHANGED initSteps

\* close() settles.
Close_End ==
    /\ pc = "close_end"
    /\ Return(ret)
    /\ UNCHANGED <<retryVars, ctlVars, cookieVars, page, handlerVars, closeVars,
                   savedErr, diagErr, extVars>>

\* The error of a failing step of init().
InitError(step) == Err(MsgClosed, 0, step)

InitFrame == UNCHANGED <<retryVars, initialized, blob, file, page, handlerVars,
                         closeVars, diagErr, timedVars, helperVars>>

\* A mutant of AfterInitStep: the page is opened before the scripts are registered.
AfterInitStepPageFirst(step) ==
    CASE step = "init_launch" -> "init_context"
      [] step = "init_context" -> "init_page"
      [] step = "init_page" -> "init_scripts"
      [] step = "init_scripts" -> "init_cookies"
      [] OTHER -> "init_preload"

\* The statements of init()'s try block, in program order: the step that follows
\* step when step has completed.
AfterInitStep(step) ==
    CASE step = "init_launch" -> "init_context"
      [] step = "init_context" -> "init_scripts"
      [] step = "init_scripts" -> "init_cookies"
      [] step = "init_cookies" -> "init_page"
      [] OTHER -> "init_preload"

\* this.browser = await chromium.launch(...)
Init_Launch ==
    /\ pc = "init_launch"
    /\ \/ /\ browserRef' = TRUE
          /\ initSteps' = <<"launch">>
          /\ Goto(AfterInitStep("init_launch"))
          /\ UNCHANGED savedErr
       \/ /\ savedErr' = InitError("launch")
          /\ initSteps' = <<>>
          /\ Goto("init_catch")
          /\ UNCHANGED browserRef
    /\ UNCHANGED <<contextRef, pageRef, contextJar>>
    /\ InitFrame

\* this.context = await this.browser.newContext(...): a context without cookies
Init_Context ==
    /\ pc = "init_context"
    /\ \/ /\ contextRef' = TRUE
          /\ contextJar' = {}
          /\ initSteps' = Append(initSteps, "context")
          /\ Goto(AfterInitStep("init_context"))
          /\ UNCHANGED savedErr
       \/ /\ savedErr' = InitError("newContext")
          /\ Goto("init_catch")
          /\ UNCHANGED <<contextRef, contextJar, initSteps>>
    /\ UNCHANGED <<browserRef, pageRef>>
    /\ InitFrame

\* await this.context.addInitScript(...); await this.applyAntiDetectionScripts(context)
\* The session script is registered first, the anti-detection script second; either
\* registration may fail.
Init_Scripts ==
    /\ pc = "init_scripts"
    /\ \/ /\ initSteps' = initSteps \o <<"sessionScript", "injector">>
          /\ Goto(AfterInitStep("init_scripts"))
          /\ UNCHANGED savedErr
       \/ /\ \E done \in {<<>>, <<"sessionScript">>} : initSteps' = initSteps \o done
          /\ savedErr' = InitError("addInitScript")
          /\ Goto("init_catch")
    /\ UNCHANGED <<browserRef, contextRef, pageRef, contextJar>>
    /\ InitFrame

\* await this.loadCookies(this.context, this.cookies)
Init_Cookies ==
    /\ pc = "init_cookies"
    /\ contextJar' = LoadCookies(contextJar, blob, contextRef)
    /\ Goto(AfterInitStep("init_cookies"))
    /\ initSteps' = Append(initSteps, "cookies")
    /\ UNCHANGED <<browserRef, contextRef, pageRef, savedErr>>
    /\ InitFrame

\* this.page = await this.context.newPage()
Init_Page ==
    /\ pc = "init_page"
    /\ \/ /\ pageRef' = TRUE
          /\ initSteps' = Append(initSteps, "page")
          /\ Goto(AfterInitStep("init_page"))
          /\ UNCHANGED savedErr
       \/ /\ savedErr' = InitError("newPage")
          /\ Goto("init_catch")
          /\ UNCHANGED <<pageRef, initSteps>>
    /\ UNCHANGED <<browserRef, contextRef, contextJar>>
    /\ InitFrame

\* The options preloadActions passes to navigateWithRetry.
PreloadOptions == [maxRetries |-> Some(2), simulateHuman |-> TRUE, handleChallenge |-> TRUE]

\* await this.preloadActions()
Init_Preload ==
    /\ pc = "init_preload"
    /\ fnOpt' = PreloadOptions
    /\ Call("nav_enter", "init_preloaded")
    /\ UNCHANGED <<ret, wrFn, wrOpt, wrAttempt, wrCalls, wrRetryable,
                   wrOnRetry, wrSleeps, wrHookErr, ctlVars, cookieVars, page, handlerVars,
                   closeVars, savedErr, diagErr, extVars>>

\* The preload has settled: init() resolves, or the catch block takes its error.
Init_Preloaded ==
    /\ pc = "init_preloaded"
    /\ IF ret = OK
         THEN Return(OK) /\ UNCHANGED savedErr
         ELSE savedErr' = ret /\ Goto("init_catch")
    /\ UNCHANGED <<browserRef, contextRef, pageRef, contextJar>>
    /\ InitFrame
    /\ UNCHANGED initSteps

\* catch (error) { await this.close(); throw error }
Init_Catch ==
    /\ pc = "init_catch"
    /\ Call("close_save", "init_rethrow")
    /\ UNCHANGED <<ret, browserRef, contextRef, pageRef, contextJar, savedErr, diagErr, extVars>>
    /\ InitFrame
    /\ UNCHANGED initSteps

Init_Rethrow ==
    /\ pc = "init_rethrow"
    /\ IF ret = OK THEN Return(savedErr) ELSE Return(ret)
    /\ UNCHANGED <<browserRef, contextRef, pageRef, contextJar, savedErr, diagErr, extVars>>
    /\ InitFrame
    /\ UNCHANGED initSteps

\* The orchestrator calls OzonBrowser.init() or OzonBrowser.close() directly.
CallBrowserInit ==
    /\ StartOp("init_launch")
    /\ UNCHANGED <<retryVars, ctlVars, cookieVars, page, handlerVars, closeVars, savedErr, diagErr, extVars>>

CallBrowserClose ==
    /\ StartOp("close_save")
    /\ UNCHANGED <<retryVars, ctlVars, cookieVars, page, handlerVars, closeVars, savedErr, diagErr, extVars>>

(***************************************************************************)
(* OzonService: init(), getProducts(url), close()                          *)
(***************************************************************************)
SvcFrame == UNCHANGED <<retryVars, browserRef, contextRef, pageRef, cookieVars, page,
                        handlerVars, closeVars, savedErr, diagErr, extVars>>

\* if (this.initialized) return; await this.browser.init()
Svc_Init ==
    /\ pc = "svc_init"
    /\ IF initialized
         THEN Return(OK)
         ELSE Call("init_launch", "svc_inited") /\ UNCHANGED ret
    /\ UNCHANGED initialized
    /\ SvcFrame

\* this.initialized = true, unless browser.init() threw
Svc_Inited ==
    /\ pc = "svc_inited"
    /\ initialized' = IF ret = OK THEN TRUE ELSE initialized
    /\ Return(ret)
    /\ SvcFrame

\* getProducts: if (!this.initialized) await this.init(), outside the try block
GP_Enter ==
    /\ pc = "gp_enter"
    /\ IF initialized
         THEN Call("gp_goto", "gp_settle")
         ELSE Call("svc_init", "gp_inited")
    /\ UNCHANGED <<ret, initialized>>
    /\ SvcFrame

\* init() has settled: its error leaves getProducts, otherwise the try block starts.
GP_Inited ==
    /\ pc = "gp_inited"
    /\ IF ret = OK THEN pc' = "gp_goto" /\ stack' = <<"gp_settle">> \o stack /\ UNCHANGED ret
       ELSE Return(ret)
    /\ UNCHANGED initialized
    /\ SvcFrame

\* const page = this.browser.getPage(); await page.goto(favoriteListUrl, ...)
GP_Goto ==
    /\ pc = "gp_goto"
    /\ IF RequirePage(pageRef, "getPage") # OK
         THEN Return(RequirePage(pageRef, "getPage")) /\ UNCHANGED <<page, contextJar>>
         ELSE PageGoto("gp_handle")
    /\ UNCHANGED <<retryVars, ctlVars, blob, file, handlerVars, closeVars, savedErr, diagErr, extVars>>

\* await this.browser.handleAccessRestriction(page)
GP_Handle ==
    /\ pc = "gp_handle"
    /\ Call("h_scan", "gp_handled")
    /\ UNCHANGED <<ret, initialized>>
    /\ SvcFrame

\* The handler has settled; then page.waitForSelector('[data-widget="searchResultsV2"]').
GP_Wait ==
    /\ pc = "gp_handled"
    /\ IF ret # OK THEN Return(ret)
       ELSE \/ Goto("gp_motion")
            \/ Return(Err(MsgTimeout, 0, "waitForSelector"))
    /\ UNCHANGED initialized
    /\ SvcFrame

\* smoothScrollToBottom: scrolling, mouse movement and page reads, none of them guarded.
SmoothScrollResults == {OK} \cup PageErrors("motion")

\* await this.browser.simulateHumanBehavior(page); await this.browser.smoothScrollToBottom(page)
GP_Motion ==
    /\ pc = "gp_motion"
    /\ \E r1 \in MotionResults, r2 \in SmoothScrollResults :
          IF r1 # OK THEN Return(r1)
          ELSE IF r2 # OK THEN Return(r2)
          ELSE Goto("gp_extract")
    /\ UNCHANGED initialized
    /\ SvcFrame

\* const products = await this.parser.extractProducts(page); await this.browser.saveCookies()
GP_ExtractAndSave ==
    /\ pc = "gp_extract"
    /\ \/ /\ Return(Err(MsgTimeout, 0, "extractProducts"))
          /\ UNCHANGED <<blob, file>>
       \/ \E r \in SaveCookiesResults : SaveCookies(r) /\ Return(r)
    /\ UNCHANGED <<retryVars, ctlVars, contextJar, page, handlerVars, closeVars, savedErr, diagErr, extVars>>

\* The diagnostics of getProducts' catch block: getPage(), takeScreenshot() and
\* savePageHtml().  Without a page getPage() throws; with one, both captures work or
\* one of them gives up with a page failure.
DiagnosticsResults(hasPage) ==
    IF hasPage THEN {OK} \cup PageErrors("diagnostics")
    ELSE {Err(MsgPageNotInit, 0, "diagnostics")}

\* A mutant of GetProductsCatch: a failure of the diagnostics is what is thrown.
GetProductsCatchLast(error, diag) == IF diag # OK THEN diag ELSE error

\* catch (error) { try { diagnostics } catch (screenshotError) { log }; throw error }
GetProductsCatch(error, diag) == error

\* The try block has settled: return products, or catch (error) and run the
\* diagnostics.
GP_Settle ==
    /\ pc = "gp_settle"
    /\ IF ret = OK
         THEN Return(OK) /\ UNCHANGED <<savedErr, diagErr>>
         ELSE /\ savedErr' = ret
              /\ \E d \in DiagnosticsResults(pageRef) : diagErr' = d
              /\ Goto("gp_rethrow")
    /\ UNCHANGED <<retryVars, ctlVars, cookieVars, page, handlerVars, closeVars,
                   extVars>>

\* throw error
GP_Rethrow ==
    /\ pc = "gp_rethrow"
    /\ Return(GetProductsCatch(savedErr, diagErr))
    /\ UNCHANGED initialized
    /\ SvcFrame

\* OzonService.close(): if (this.initialized) { await this.browser.close(); ... }
Svc_Close ==
    /\ pc = "svc_close"
    /\ IF initialized
         THEN Call("close_save", "svc_closed") /\ UNCHANGED ret
         ELSE Return(OK)
    /\ UNCHANGED initialized
    /\ SvcFrame

\* this.initialized = false, unless browser.close() threw
Svc_Closed ==
    /\ pc = "svc_closed"
    /\ initialized' = IF ret = OK THEN FALSE ELSE initialized
    /\ Return(ret)
    /\ SvcFrame

\* The orchestrator calls OzonService.init(), getProducts() or close().
CallServiceInit ==
    /\ StartOp("svc_init")
    /\ UNCHANGED <<retryVars, ctlVars, cookieVars, page, handlerVars, closeVars, savedErr, diagErr, extVars>>

CallGetProducts ==
    /\ StartOp("gp_enter")
    /\ UNCHANGED <<retryVars, ctlVars, cookieVars, page, handlerVars, closeVars, savedErr, diagErr, extVars>>

CallServiceClose ==
    /\ StartOp("svc_close")
    /\ UNCHANGED <<retryVars, ctlVars, cookieVars, page, handlerVars, closeVars, savedErr, diagErr, extVars>>

Next ==
    \/ CallGenericWithRetry
    \/ CallBrowserInit
    \/ CallBrowserClose
    \/ CallServiceInit
    \/ CallGetProducts
    \/ CallServiceClose
    \/ CallNavigate
    \/ CallExecute
    \/ CallGetPage
    \/ CallTakeScreenshot
    \/ CallSavePageHtml
    \/ GetPage
    \/ ShotEnter
    \/ FnScreenshot
    \/ WR_OnRetryDefault
    \/ HtmlEnter
    \/ Finish
    \/ WR_Invoke
    \/ FnGeneric
    \/ WR_Return
    \/ WR_Catch
    \/ WR_OnRetryGeneric
    \/ WR_OnRetryNavigate
    \/ WR_OnRetryExecute
    \/ WR_Delay
    \/ NavEnter
    \/ ExecEnter
    \/ NavGoto
    \/ ExecAction
    \/ FnHandle
    \/ FnHandled
    \/ FnSimulate
    \/ H_Scan
    \/ H_Simulate1
    \/ H_Click1
    \/ H_Check1
    \/ H_Simulate2
    \/ H_Click2
    \/ H_Check2
    \/ H_Probe
    \/ H_Fallback
    \/ H_LastCheck
    \/ H_End
    \/ Close_Save
    \/ Close_Page
    \/ Close_Context
    \/ Close_Browser
    \/ Close_End
    \/ Init_Launch
    \/ Init_Context
    \/ Init_Scripts
    \/ Init_Cookies
    \/ Init_Page
    \/ Init_Preload
    \/ Init_Preloaded
    \/ Init_Catch
    \/ Init_Rethrow
    \/ Svc_Init
    \/ Svc_Inited
    \/ GP_Enter
    \/ GP_Inited
    \/ GP_Goto
    \/ GP_Handle
    \/ GP_Wait
    \/ GP_Motion
    \/ GP_ExtractAndSave
    \/ GP_Settle
    \/ GP_Rethrow
    \/ Svc_Close
    \/ Svc_Closed

Spec == Init /\ [][Next]_vars

(***************************************************************************)
(* Tasks sharing one OzonService (app.ts).  The scheduler runs one         *)
(* checkProductsHandler at a time; a bot command (setFavoriteList) runs    *)
(* whenever a message arrives.  Both use this.ozonService, and each await  *)
(* lets the other task run.  An engine, context or page is named by the    *)
(* run of OzonBrowser.init() that created it; 0 is the null reference.     *)
(***************************************************************************)
Tasks == {"check", "command"}

Resource(kind, run, parent) == [kind |-> kind, run |-> run, parent |-> parent]

\* The resources of one kind that are open.
Open(kind) == {r \in shared.open : r.kind = kind}

IsOpen(kind, run) == \E r \in shared.open : r.kind = kind /\ r.run = run

\* page.close(), context.close() (with its pages), browser.close() (with its
\* contexts and their pages).  A context is created in the engine of the same run.
ClosePage(open, run) == {r \in open : ~(r.kind = "page" /\ r.run = run)}
CloseContext(open, run) ==
    {r \in open : ~(r.kind = "context" /\ r.run = run) /\ ~(r.kind = "page" /\ r.parent = run)}
CloseBrowser(open, run) ==
    {r \in CloseContext(open, run) : ~(r.kind = "browser" /\ r.run = run)}

IdleTask == [pc |-> "idle", page |-> 0, run |-> 0, after |-> "none"]

SharedInit ==
    /\ tasks = [t \in Tasks |-> IdleTask]
    /\ shared = [initialized |-> FALSE, browser |-> 0, context |-> 0, page |-> 0,
                 next |-> 1, open |-> {}]
    /\ pc = "shared"
    /\ stack = <<>>
    /\ ret = OK
    /\ wrFn = "none"
    /\ wrOpt = NoOptions
    /\ wrAttempt = 0
    /\ wrCalls = 0
    /\ wrRetryable = 0
    /\ wrOnRetry = 0
    /\ wrSleeps = 0
    /\ wrHookErr = FALSE
    /\ fnOpt = NoFnOptions
    /\ browserRef = FALSE
    /\ contextRef = FALSE
    /\ pageRef = FALSE
    /\ initialized = FALSE
    /\ blob = InitialBlob
    /\ file = InitialBlob
    /\ contextJar = {}
    /\ page = BlankPage
    /\ hDetected = "none"
    /\ hClicks = 0
    /\ hProbed = FALSE
    /\ closeTried = {}
    /\ closeFailed = {}
    /\ savedErr = OK
    /\ diagErr = OK
    /\ wrDelayMs = 0
    /\ wrLog = <<>>
    /\ initSteps = <<>>
    /\ HelpersIdle

SharedFrame ==
    UNCHANGED <<pc, stack, ret, retryVars, ctlVars, cookieVars, page, handlerVars,
                closeVars, savedErr, diagErr, wrDelayMs, wrLog, initSteps, helperVars>>

\* Task t moves to position l; the other task stays where it is.
TaskGoto(t, l) == tasks' = [tasks EXCEPT ![t].pc = l]

\* The scheduler's timer fires, or a command arrives.
T_Start(t) ==
    /\ tasks[t].pc = "idle"
    /\ TaskGoto(t, "init")
    /\ UNCHANGED shared
    /\ SharedFrame

\* OzonService.init(): if (this.initialized) return; await this.browser.init()
T_ServiceInit(t) ==
    /\ tasks[t].pc = "init"
    /\ TaskGoto(t, IF shared.initialized THEN "use" ELSE "launch")
    /\ UNCHANGED shared
    /\ SharedFrame

\* this.browser = await chromium.launch(...), then newContext() is called on it
T_Launch(t) ==
    /\ tasks[t].pc = "launch"
    /\ shared.next <= MaxInits
    /\ shared' = [shared EXCEPT !.open = @ \cup {Resource("browser", shared.next, 0)},
                                !.browser = shared.next,
                                !.next = @ + 1]
    /\ tasks' = [tasks EXCEPT ![t].pc = "context", ![t].run = shared.next]
    /\ SharedFrame

\* this.context = await this.browser.newContext(...): the context of the engine this
\* run launched; it fails when that engine has been closed in the meantime.
T_NewContext(t) ==
    /\ tasks[t].pc = "context"
    /\ IF IsOpen("browser", tasks[t].run)
         THEN /\ shared' = [shared EXCEPT
                    !.open = @ \cup {Resource("context", tasks[t].run, tasks[t].run)},
                    !.context = tasks[t].run]
              /\ TaskGoto(t, "page")
         ELSE /\ tasks' = [tasks EXCEPT ![t].pc = "close_page", ![t].after = "throw"]
              /\ UNCHANGED shared
    /\ SharedFrame

\* this.page = await this.context.newPage(): this.context is read after the awaits of
\* the scripts and the cookies, so it is whatever the field holds by then.
T_NewPage(t) ==
    /\ tasks[t].pc = "page"
    /\ IF shared.context # 0 /\ IsOpen("context", shared.context)
         THEN /\ shared' = [shared EXCEPT
                    !.open = @ \cup {Resource("page", tasks[t].run, shared.context)},
                    !.page = tasks[t].run]
              /\ TaskGoto(t, "preload")
         ELSE /\ tasks' = [tasks EXCEPT ![t].pc = "close_page", ![t].after = "throw"]
              /\ UNCHANGED shared
    /\ SharedFrame

\* await this.preloadActions() on the page of this run; then OzonService.init() sets
\* this.initialized = true.  A failure goes to init()'s catch: close(), throw.
T_Preload(t) ==
    /\ tasks[t].pc = "preload"
    /\ \/ /\ IsOpen("page", tasks[t].run)
          /\ shared' = [shared EXCEPT !.initialized = TRUE]
          /\ TaskGoto(t, "use")
       \/ /\ tasks' = [tasks EXCEPT ![t].pc = "close_page", ![t].after = "throw"]
          /\ UNCHANGED shared
    /\ SharedFrame

\* Where a task goes when its use of the service threw: checkProductsHandler closes
\* the service in its finally block, setFavoriteList just rejects.
AfterFailure(t) == IF t = "check" THEN "svc_close" ELSE "idle"

\* const page = this.browser.getPage(); await page.goto(...)
T_Use(t) ==
    /\ tasks[t].pc = "use"
    /\ IF shared.page # 0
         THEN tasks' = [tasks EXCEPT ![t].pc = "using", ![t].page = shared.page]
         ELSE TaskGoto(t, AfterFailure(t))
    /\ UNCHANGED shared
    /\ SharedFrame

\* The navigation and what follows it settle; on a page closed in the meantime they
\* fail.  Then ozonService.close().
T_UseDone(t) ==
    /\ tasks[t].pc = "using"
    /\ \/ /\ IsOpen("page", tasks[t].page)
          /\ tasks' = [tasks EXCEPT ![t].pc = "svc_close", ![t].page = 0]
       \/ tasks' = [tasks EXCEPT ![t].pc = AfterFailure(t), ![t].page = 0]
    /\ UNCHANGED shared
    /\ SharedFrame

\* OzonService.close(): if (this.initialized) { await this.browser.close(); ... }
T_ServiceClose(t) ==
    /\ tasks[t].pc = "svc_close"
    /\ tasks' = [tasks EXCEPT ![t].pc = IF shared.initialized THEN "close_page" ELSE "idle",
                              ![t].after = "closed"]
    /\ UNCHANGED shared
    /\ SharedFrame

\* if (this.page) { await this.page.close(); this.page = null }
T_ClosePage(t) ==
    /\ tasks[t].pc = "close_page"
    /\ shared' = [shared EXCEPT !.open = ClosePage(@, shared.page), !.page = 0]
    /\ TaskGoto(t, "close_context")
    /\ SharedFrame

\* if (this.context) { await this.context.close(); this.context = null }
T_CloseContext(t) ==
    /\ tasks[t].pc = "close_context"
    /\ shared' = [shared EXCEPT !.open = CloseContext(@, shared.context), !.context = 0]
    /\ TaskGoto(t, "close_browser")
    /\ SharedFrame

\* if (this.browser) { await this.browser.close(); this.browser = null }; then
\* OzonService.close() clears this.initialized, or init()'s catch rethrows.
T_CloseBrowser(t) ==
    /\ tasks[t].pc = "close_browser"
    /\ shared' = [shared EXCEPT
           !.open = CloseBrowser(@, shared.browser),
           !.browser = 0,
           !.initialized = IF tasks[t].after = "closed" THEN FALSE ELSE @]
    /\ tasks' = [tasks EXCEPT
           ![t].pc = IF tasks[t].after = "closed" THEN "idle" ELSE AfterFailure(t),
           ![t].after = "none",
           ![t].run = 0]
    /\ SharedFrame

SharedNext ==
    \/ \E t \in Tasks : T_Start(t)
    \/ \E t \in Tasks : T_ServiceInit(t)
    \/ \E t \in Tasks : T_Launch(t)
    \/ \E t \in Tasks : T_NewContext(t)
    \/ \E t \in Tasks : T_NewPage(t)
    \/ \E t \in Tasks : T_Preload(t)
    \/ \E t \in Tasks : T_Use(t)
    \/ \E t \in Tasks : T_UseDone(t)
    \/ \E t \in Tasks : T_ServiceClose(t)
    \/ \E t \in Tasks : T_ClosePage(t)
    \/ \E t \in Tasks : T_CloseContext(t)
    \/ \E t \in Tasks : T_CloseBrowser(t)

SpecShared == SharedInit /\ [][SharedNext]_vars

(***************************************************************************)
(* withRetry alone: its delays, its hook and the order of what it does.    *)
(* wrLog records, in order, every start of the action ("call"), how that   *)
(* invocation settled ("settle"), every call of onRetry, every sleep and   *)
(* how withRetry ended ("return" or "throw").                              *)
(***************************************************************************)
defaultBackoffFactor == 2
defaultInitialDelayMs == 1000
defaultMaxDelayMs == 30000
defaultJitter == TRUE

\* backoffFactor: options.backoffFactor || defaultRetryOptions.backoffFactor
MergeBackoffFactor(f) == IF f = Undef \/ f = Some(0) THEN defaultBackoffFactor ELSE Get(f)

\* initialDelayMs: options.initialDelayMs || defaultRetryOptions.initialDelayMs
MergeInitialDelayMs(d) == IF d = Undef \/ d = Some(0) THEN defaultInitialDelayMs ELSE Get(d)

\* maxDelayMs: options.maxDelayMs || defaultRetryOptions.maxDelayMs
MergeMaxDelayMs(d) == IF d = Undef \/ d = Some(0) THEN defaultMaxDelayMs ELSE Get(d)

\* jitter: options.jitter !== undefined ? options.jitter : defaultRetryOptions.jitter
MergeJitter(j) == IF j = Undef THEN defaultJitter ELSE Get(j)

\* const retryOptions = { ...defaultRetryOptions, ...options, backoffFactor: ..., ... }
MergeOptions(o) ==
    [backoffFactor |-> MergeBackoffFactor(o.backoffFactor),
     initialDelayMs |-> MergeInitialDelayMs(o.initialDelayMs),
     jitter |-> MergeJitter(o.jitter),
     maxDelayMs |-> MergeMaxDelayMs(o.maxDelayMs),
     maxRetries |-> MergeMaxRetries(o.maxRetries)]

\* b ** e
RECURSIVE Pow(_, _)
Pow(b, e) == IF e = 0 THEN 1 ELSE b * Pow(b, e - 1)

\* Math.min(a, b)
Min(a, b) == IF a <= b THEN a ELSE b

\* Math.random(), in thousandths: a value of [0, 1)
RandomPermille == {0, 500, 999}

\* A mutant of CalculateBackoff: the exponent is the 1-based retry number.
CalculateBackoffOneBased(attempt, o, random) ==
    LET exponentialDelay ==
            Min(o.maxDelayMs, o.initialDelayMs * Pow(o.backoffFactor, attempt + 1))
    IN  IF o.jitter
          THEN (exponentialDelay * (7000 + 6 * random)) \div 10000
          ELSE exponentialDelay

\* calculateBackoff(attempt, options); random is what Math.random() returns.
\* jitterFactor = 0.7 + random * 0.6, in ten-thousandths: 7000 + 6 * random
CalculateBackoff(attempt, o, random) ==
    LET exponentialDelay ==
            Min(o.maxDelayMs, o.initialDelayMs * Pow(o.backoffFactor, attempt))
    IN  IF o.jitter
          THEN (exponentialDelay * (7000 + 6 * random)) \div 10000
          ELSE exponentialDelay

\* The value the action's n-th invocation resolves with.
Result(n) == [msg |-> "", status |-> n, from |-> "result"]

\* The errors the action rejects with.
TimedErrors ==
    {Err(MsgTimeout, 0, "action"), Err(MsgNetErr, 0, "action"), Err(MsgHttp, 404, "action")}

\* The options objects a caller of withRetry passes.
TimedOptions ==
    [maxRetries : {Undef} \cup {Some(n) : n \in 0..MaxRetriesArg},
     retryableErrors : {Undef, Some({MsgHttp})},
     initialDelayMs : {Undef, Some(0), Some(100)},
     backoffFactor : {Undef, Some(2), Some(3)},
     maxDelayMs : {Undef, Some(300)},
     jitter : {Undef, Some(TRUE), Some(FALSE)},
     onRetry : {Undef, Some("caller")}]

Event(ev, n, err, d) == [ev |-> ev, n |-> n, err |-> err, d |-> d]

\* A caller has just entered withRetry(fn, options).
RetryInit ==
    /\ pc = "rt_loop"
    /\ wrOpt \in TimedOptions
    /\ wrAttempt = 0
    /\ wrCalls = 0
    /\ wrOnRetry = 0
    /\ wrSleeps = 0
    /\ wrHookErr = FALSE
    /\ wrDelayMs = 0
    /\ wrLog = <<>>
    /\ initSteps = <<>>
    /\ HelpersIdle
    /\ ret = OK
    /\ stack = <<>>
    /\ wrFn = "generic"
    /\ wrRetryable = 0
    /\ fnOpt = NoFnOptions
    /\ browserRef = FALSE
    /\ contextRef = FALSE
    /\ pageRef = FALSE
    /\ initialized = FALSE
    /\ blob = InitialBlob
    /\ file = InitialBlob
    /\ contextJar = {}
    /\ page = BlankPage
    /\ hDetected = "none"
    /\ hClicks = 0
    /\ hProbed = FALSE
    /\ closeTried = {}
    /\ closeFailed = {}
    /\ savedErr = OK
    /\ diagErr = OK
    /\ tasks = <<>>
    /\ shared = <<>>

RetryFrame ==
    UNCHANGED <<stack, wrFn, wrOpt, wrRetryable, fnOpt, ctlVars, cookieVars, page,
                handlerVars, closeVars, savedErr, diagErr, tasks, shared, initSteps, helperVars>>

\* while (attempt <= retryOptions.maxRetries) { try { ... fn() starts
RT_Invoke ==
    /\ pc = "rt_loop"
    /\ wrAttempt <= MergeOptions(wrOpt).maxRetries
    /\ wrCalls' = wrCalls + 1
    /\ wrLog' = Append(wrLog, Event("call", wrCalls + 1, OK, 0))
    /\ pc' = "rt_fn"
    /\ UNCHANGED <<ret, wrAttempt, wrOnRetry, wrSleeps, wrHookErr, wrDelayMs>>
    /\ RetryFrame

\* await fn(): the promise resolves with this invocation's value or rejects.
RT_Fn ==
    /\ pc = "rt_fn"
    /\ \E r \in {Result(wrCalls)} \cup TimedErrors :
          /\ ret' = r
          /\ wrLog' = Append(wrLog, Event("settle", wrCalls, r, 0))
    /\ pc' = "rt_settle"
    /\ UNCHANGED <<wrAttempt, wrCalls, wrOnRetry, wrSleeps, wrHookErr, wrDelayMs>>
    /\ RetryFrame

\* A mutant of TrySettle: every settled invocation lands in the catch block.
TrySettleCatchAll(r) == "catch"

\* try { return await fn() } catch (error) { ... }
TrySettle(r) == IF r.from = "result" THEN "return" ELSE "catch"

\* return await fn()
RT_Return ==
    /\ pc = "rt_settle"
    /\ TrySettle(ret) = "return"
    /\ wrLog' = Append(wrLog, Event("return", wrCalls, ret, 0))
    /\ pc' = "rt_done"
    /\ UNCHANGED <<ret, wrAttempt, wrCalls, wrOnRetry, wrSleeps, wrHookErr, wrDelayMs>>
    /\ RetryFrame

\* catch (error) { attempt++; throw when exhausted or not retryable; otherwise
\* const delayMs = calculateBackoff(attempt - 1, retryOptions)
RT_Catch ==
    /\ pc = "rt_settle"
    /\ TrySettle(ret) = "catch"
    /\ wrAttempt' = wrAttempt + 1
    /\ IF CatchDecision(wrAttempt + 1, MergeOptions(wrOpt).maxRetries,
                        IsRetryable(wrOpt, ret)) = "throw"
         THEN /\ wrLog' = Append(wrLog, Event("throw", wrCalls, ret, 0))
              /\ pc' = "rt_done"
              /\ UNCHANGED wrDelayMs
         ELSE /\ \E random \in RandomPermille :
                    wrDelayMs' = CalculateBackoff(wrAttempt' - 1, MergeOptions(wrOpt), random)
              /\ pc' = "rt_onretry"
              /\ UNCHANGED wrLog
    /\ UNCHANGED <<ret, wrCalls, wrOnRetry, wrSleeps, wrHookErr>>
    /\ RetryFrame

\* A mutant of OnRetryCall: the hook is given the 0-based attempt index.
OnRetryCallZeroBased(error, attempt, delayMs) == Event("onRetry", attempt - 1, error, delayMs)

\* retryOptions.onRetry(error, attempt, delayMs)
OnRetryCall(error, attempt, delayMs) == Event("onRetry", attempt, error, delayMs)

\* A mutant of AfterOnRetry: the next attempt starts when the hook returns.
AfterOnRetryAtOnce == "rt_loop"

\* await retryOptions.onRetry(...); await delay(delayMs)
AfterOnRetry == "rt_delay"

\* await retryOptions.onRetry(error, attempt, delayMs): the hook returns, or a hook
\* supplied by the caller throws and its error leaves withRetry.  The default hook
\* only logs.
RT_OnRetry ==
    /\ pc = "rt_onretry"
    /\ wrOnRetry' = wrOnRetry + 1
    /\ \/ /\ wrLog' = Append(wrLog, OnRetryCall(ret, wrAttempt, wrDelayMs))
          /\ pc' = AfterOnRetry
          /\ UNCHANGED <<ret, wrHookErr>>
       \/ /\ wrOpt.onRetry # Undef
          /\ wrLog' = wrLog \o <<OnRetryCall(ret, wrAttempt, wrDelayMs),
                                 Event("throw", wrCalls, Err(MsgHook, 0, "onRetry"), 0)>>
          /\ ret' = Err(MsgHook, 0, "onRetry")
          /\ wrHookErr' = TRUE
          /\ pc' = "rt_done"
    /\ UNCHANGED <<wrAttempt, wrCalls, wrSleeps, wrDelayMs>>
    /\ RetryFrame

\* await delay(delayMs): setTimeout(resolve, ms); then the loop tests its condition
RT_Delay ==
    /\ pc = "rt_delay"
    /\ wrSleeps' = wrSleeps + 1
    /\ wrLog' = Append(wrLog, Event("sleep", wrAttempt, OK, wrDelayMs))
    /\ pc' = "rt_loop"
    /\ UNCHANGED <<ret, wrAttempt, wrCalls, wrOnRetry, wrHookErr, wrDelayMs>>
    /\ RetryFrame

RetryNext ==
    \/ RT_Invoke
    \/ RT_Fn
    \/ RT_Return
    \/ RT_Catch
    \/ RT_OnRetry
    \/ RT_Delay

SpecRetry == RetryInit /\ [][RetryNext]_vars

(***************************************************************************)
(* smoothScrollToBottom(page) on its own.  Lengths are in CSS pixels.      *)
(***************************************************************************)
\* the tallest document is the viewport plus MaxGrowth blocks of content
MaxGrowth == 2
\* window.innerHeight, also page.viewportSize().height
InnerHeight == 1000
\* the height of one block of content and of the footer
BlockHeight == 600
FooterHeight == 200
\* if (documentHeight - currentScroll < 100)
BottomMargin == 100

\* The heights the document can have.
DocHeights == {InnerHeight + BlockHeight * k : k \in 0..MaxGrowth}

\* getRandomDelay(Math.min(300, viewportHeight * 0.4), Math.min(800, viewportHeight * 0.7)):
\* an integer of 300..700; the ends of the range stand for it.
ScrollSteps == {300, 700}

\* getRandomDelay(30, 80)
SmallAdjustments == {30, 80}

\* window.scrollY after a wheel scroll by dy on a document of height h: the browser
\* keeps it within 0 .. h - innerHeight; a page that does not respond stays put.
Wheel(y, dy, h, responds) ==
    IF ~responds THEN y
    ELSE IF y + dy < 0 THEN 0
    ELSE IF y + dy > h - InnerHeight THEN h - InnerHeight
    ELSE y + dy

\* footer.getBoundingClientRect().top <= window.innerHeight, the footer being the last
\* FooterHeight pixels of the document
FooterVisible(w) == w.footer /\ (w.docHeight - FooterHeight) - w.scrollY <= InnerHeight

\* currentScroll = Math.round(window.scrollY + window.innerHeight);
\* documentHeight - currentScroll < 100, documentHeight being the height measured
\* before the loop
ReachedBottom(documentHeight, w) ==
    documentHeight - (w.scrollY + InnerHeight) < BottomMargin

\* The pages smoothScrollToBottom is called on: with or without a footer, responding
\* to the wheel or not, with or without a stored mouse position.
ScrollWindows ==
    [docHeight : DocHeights, scrollY : {0}, footer : BOOLEAN, responds : BOOLEAN,
     mouseStored : BOOLEAN]

ScrollInit ==
    /\ ControllerIdle
    /\ \E w \in ScrollWindows :
          scroll = [pc |-> "measure", documentHeight |-> 0, isFooterVisible |-> FALSE,
                    result |-> "none", w |-> w]
    /\ pointer = <<>>
    /\ keys = <<>>
    /\ injector = <<>>
    /\ canvas = <<>>
    /\ path = <<>>
    /\ multi = <<>>
    /\ sched = <<>>
    /\ codec = <<>>

ScrollFrame == UNCHANGED <<controllerVars, pointer, keys, injector, canvas, path,
                         multi, sched, codec>>

\* A page operation of smoothScrollToBottom throws: nothing catches it.
SS_Throw ==
    /\ scroll.pc \in {"measure", "scroll", "check", "pause", "safety"}
    /\ scroll' = [scroll EXCEPT !.pc = "done", !.result = "error"]
    /\ ScrollFrame

\* const documentHeight = await page.evaluate(() => Math.max(...))
SS_Measure ==
    /\ scroll.pc = "measure"
    /\ scroll' = [scroll EXCEPT !.pc = "scroll", !.documentHeight = scroll.w.docHeight]
    /\ ScrollFrame

\* while (!isFooterVisible) { await scrollHumanLike(page, 'down', scrollStep, ...)
SS_Scroll ==
    /\ scroll.pc = "scroll"
    /\ \E step \in ScrollSteps :
          scroll' = [scroll EXCEPT
                        !.pc = "check",
                        !.w.scrollY = Wheel(scroll.w.scrollY, step, scroll.w.docHeight,
                                            scroll.w.responds)]
    /\ ScrollFrame

\* isFooterVisible = await page.evaluate(...)
SS_Check ==
    /\ scroll.pc = "check"
    /\ scroll' = [scroll EXCEPT !.pc = "pause", !.isFooterVisible = FooterVisible(scroll.w)]
    /\ ScrollFrame

\* if (Math.random() < 0.4 && !isFooterVisible) { ... }: no pause, or a pause with a
\* small scroll up or down or none, and with or without a mouse movement.  The mouse
\* movement reads the stored position with `_mouseX || width / 2` inside
\* page.evaluate, where width is not defined: without a stored position it throws.
SS_Pause ==
    /\ scroll.pc = "pause"
    /\ \/ scroll' = [scroll EXCEPT !.pc = "safety"]
       \/ /\ ~scroll.isFooterVisible
          /\ \E dy \in {0} \cup SmallAdjustments \cup {0 - a : a \in SmallAdjustments},
                move \in BOOLEAN :
                LET y == Wheel(scroll.w.scrollY, dy, scroll.w.docHeight, scroll.w.responds)
                IN  IF move /\ ~scroll.w.mouseStored
                      THEN scroll' = [scroll EXCEPT !.pc = "done", !.result = "error",
                                                    !.w.scrollY = y]
                      ELSE scroll' = [scroll EXCEPT
                                         !.pc = "safety",
                                         !.w.scrollY = y,
                                         !.w.mouseStored = scroll.w.mouseStored \/ move]
    /\ ScrollFrame

\* The safety check, then the loop condition.
SS_Safety ==
    /\ scroll.pc = "safety"
    /\ scroll' = [scroll EXCEPT
                     !.pc = IF ReachedBottom(scroll.documentHeight, scroll.w)
                                 \/ scroll.isFooterVisible
                              THEN "final" ELSE "scroll"]
    /\ ScrollFrame

\* await delay(getRandomDelay(500, 1200)) and return
SS_Final ==
    /\ scroll.pc = "final"
    /\ scroll' = [scroll EXCEPT !.pc = "done", !.result = "ok"]
    /\ ScrollFrame

\* The page loads content or drops it while the loop runs: the document grows or
\* shrinks, and the browser keeps the scroll position within it.
PageResizes ==
    /\ scroll.pc \in {"scroll", "check", "pause", "safety"}
    /\ \E h \in DocHeights \ {scroll.w.docHeight} :
          scroll' = [scroll EXCEPT
                        !.w.docHeight = h,
                        !.w.scrollY = Wheel(scroll.w.scrollY, 0, h, TRUE)]
    /\ ScrollFrame

\* The steps of smoothScrollToBottom itself.
ScrollProgram ==
    \/ SS_Measure
    \/ SS_Scroll
    \/ SS_Check
    \/ SS_Pause
    \/ SS_Safety
    \/ SS_Final

ScrollNext ==
    \/ ScrollProgram
    \/ SS_Throw
    \/ PageResizes

\* The event loop runs smoothScrollToBottom whenever it can take a step.
SpecScroll == ScrollInit /\ [][ScrollNext]_vars /\ WF_vars(ScrollProgram)

(***************************************************************************)
(* hoverElementHumanLike and clickElementHumanLike on their own.           *)
(* pointer.events lists the mouse events sent to the page, pointer.miss    *)
(* says why the element was not reached, pointer.result is what the        *)
(* function gave its caller: "true", "false", or "raised" for an error.    *)
(***************************************************************************)
\* A mutant of HelperCatch: the error leaves the helper.
HelperCatchRethrow(e) == "raised"

\* catch { return false }, the catch block of both helpers
HelperCatch(e) == "false"

\* const hoverSuccess = await hoverElementHumanLike(...); if (!hoverSuccess) return false
AfterHover(hoverSuccess) == IF hoverSuccess = "true" THEN "c_down" ELSE "c_return_false"

\* The calls: which helper, and options.doubleClick.
PointerCalls == [fn : {"hover", "click"}, doubleClick : BOOLEAN]

PointerInit ==
    /\ ControllerIdle
    /\ \E c \in PointerCalls :
          pointer = [pc |-> "h_wait", fn |-> c.fn, doubleClick |-> c.doubleClick,
                     events |-> <<>>, miss |-> "none", err |-> OK,
                     hover |-> "none", result |-> "none"]
    /\ scroll = <<>>
    /\ keys = <<>>
    /\ injector = <<>>
    /\ canvas = <<>>
    /\ path = <<>>
    /\ multi = <<>>
    /\ sched = <<>>
    /\ codec = <<>>

PointerFrame == UNCHANGED <<controllerVars, scroll, keys, injector, canvas, path,
                         multi, sched, codec>>

\* hoverElementHumanLike settles with r; a hover called by clickElementHumanLike
\* hands r to it.
HoverSettles(p, r) ==
    IF p.fn = "hover"
      THEN [p EXCEPT !.pc = "done", !.hover = r, !.result = r]
      ELSE [p EXCEPT !.pc = "c_after_hover", !.hover = r]

\* A step of the hover throws e: its catch block.
HoverFails(p, why, e) == HoverSettles([p EXCEPT !.miss = why, !.err = e], HelperCatch(e))

\* await page.waitForSelector(selector, { state: 'visible', timeout: 2000 })
PH_Wait ==
    /\ pointer.pc = "h_wait"
    /\ \/ pointer' = [pointer EXCEPT !.pc = "h_position"]
       \/ \E e \in PageErrors("waitForSelector") :
             pointer' = HoverFails(pointer, IF e.msg = MsgTimeout THEN "timeout" ELSE "error", e)
    /\ PointerFrame

\* const mousePosition = await page.evaluate(...)
PH_Position ==
    /\ pointer.pc = "h_position"
    /\ \/ pointer' = [pointer EXCEPT !.pc = "h_box"]
       \/ \E e \in PageErrors("evaluate") : pointer' = HoverFails(pointer, "error", e)
    /\ PointerFrame

\* const boundingBox = await page.locator(selector).boundingBox();
\* if (!boundingBox) return false
PH_Box ==
    /\ pointer.pc = "h_box"
    /\ \/ pointer' = [pointer EXCEPT !.pc = "h_move"]
       \/ pointer' = HoverSettles([pointer EXCEPT !.miss = "nobox"], "false")
       \/ \E e \in PageErrors("boundingBox") : pointer' = HoverFails(pointer, "error", e)
    /\ PointerFrame

\* await moveMouseHumanLike(...): mouse moves along the path; it may fail before the
\* first move or after some.
PH_Move ==
    /\ pointer.pc = "h_move"
    /\ \/ pointer' = [pointer EXCEPT !.pc = "h_store", !.events = Append(@, "move")]
       \/ \E e \in PageErrors("mouse.move"), sent \in {<<>>, <<"move">>} :
             pointer' = HoverFails([pointer EXCEPT !.events = @ \o sent], "error", e)
    /\ PointerFrame

\* await page.evaluate(store the position); await delay(...); return true
PH_Store ==
    /\ pointer.pc = "h_store"
    /\ \/ pointer' = HoverSettles(pointer, "true")
       \/ \E e \in PageErrors("evaluate") : pointer' = HoverFails(pointer, "error", e)
    /\ PointerFrame

\* clickElementHumanLike after its hover
PC_AfterHover ==
    /\ pointer.pc = "c_after_hover"
    /\ pointer' = [pointer EXCEPT !.pc = AfterHover(pointer.hover)]
    /\ PointerFrame

\* return false
PC_ReturnFalse ==
    /\ pointer.pc = "c_return_false"
    /\ pointer' = [pointer EXCEPT !.pc = "done", !.result = "false"]
    /\ PointerFrame

\* await page.mouse.down() / await page.mouse.up(), of the click and of the second
\* click of a double click; after the last one, return true
PC_Button ==
    /\ pointer.pc \in {"c_down", "c_up", "c_down2", "c_up2"}
    /\ LET button == IF pointer.pc \in {"c_down", "c_down2"} THEN "down" ELSE "up"
           next == CASE pointer.pc = "c_down" -> "c_up"
                     [] pointer.pc = "c_up" -> IF pointer.doubleClick THEN "c_down2" ELSE "done"
                     [] pointer.pc = "c_down2" -> "c_up2"
                     [] OTHER -> "done"
       IN \/ pointer' = [pointer EXCEPT !.pc = next,
                                        !.events = Append(@, button),
                                        !.result = IF next = "done" THEN "true" ELSE @]
          \/ \E e \in PageErrors("mouse.button") :
                pointer' = [pointer EXCEPT !.pc = "done", !.err = e,
                                           !.result = HelperCatch(e)]
    /\ PointerFrame

PointerNext ==
    \/ PH_Wait
    \/ PH_Position
    \/ PH_Box
    \/ PH_Move
    \/ PH_Store
    \/ PC_AfterHover
    \/ PC_ReturnFalse
    \/ PC_Button

SpecPointer == PointerInit /\ [][PointerNext]_vars

(***************************************************************************)
(* typeHumanLike(page, text, options) on its own.                          *)
(* keys.pressed lists the arguments of page.keyboard.press, in order.      *)
(***************************************************************************)
\* the longest text typed
MaxTextLen == 3

\* The characters of the texts: a lower-case letter, an upper-case letter, a digit,
\* a blank and a punctuation mark.
Chars == {"a", "Q", "0", " ", "."}

\* char.toLowerCase()
ToLowerCase(c) == IF c = "Q" THEN "q" ELSE c

\* typoMap, the entries for the characters above: the neighbours on the keyboard
typoMap == [a |-> <<"s", "q", "z">>, q |-> <<"w", "a">>] @@ ("0" :> <<"9", "-">>)

\* typoRate, in thousandths: never, the default 0.03, always
TypoRates == {0, 30, 1000}

\* makeTypo && typoMap.has(char.toLowerCase()), with makeTypo = Math.random() < typoRate
MakesTypo(random, typoRate, char) ==
    random < typoRate /\ ToLowerCase(char) \in DOMAIN typoMap

\* A mutant of TypoKeys: the mistype is left in the field.
TypoKeysUncorrected(typo) == <<typo>>

\* await page.keyboard.press(typo); ...; await page.keyboard.press('Backspace')
TypoKeys(typo) == <<typo, "Backspace">>

\* The texts of up to MaxTextLen characters.
Texts == UNION {[1..n -> Chars] : n \in 0..MaxTextLen}

KeysInit ==
    /\ ControllerIdle
    /\ \E t \in Texts, rate \in TypoRates :
          keys = [pc |-> "loop", text |-> t, typoRate |-> rate, i |-> 0,
                  todo |-> <<>>, pressed |-> <<>>, result |-> "none"]
    /\ scroll = <<>>
    /\ pointer = <<>>
    /\ injector = <<>>
    /\ canvas = <<>>
    /\ path = <<>>
    /\ multi = <<>>
    /\ sched = <<>>
    /\ codec = <<>>

KeysFrame == UNCHANGED <<controllerVars, scroll, pointer, injector, canvas, path,
                         multi, sched, codec>>

\* for (let i = 0; i < text.length; i++) { const char = text[i]; decide on a typo }
K_Decide ==
    /\ keys.pc = "loop"
    /\ keys.i < Len(keys.text)
    /\ LET char == keys.text[keys.i + 1]
       IN \E random \in RandomPermille :
             IF MakesTypo(random, keys.typoRate, char)
               THEN \E k \in 1..Len(typoMap[ToLowerCase(char)]) :
                       keys' = [keys EXCEPT
                                  !.pc = "press",
                                  !.todo = TypoKeys(typoMap[ToLowerCase(char)][k])
                                             \o <<char>>]
               ELSE keys' = [keys EXCEPT !.pc = "press", !.todo = <<char>>]
    /\ KeysFrame

\* await page.keyboard.press(key); after the correct character the loop goes on
K_Press ==
    /\ keys.pc = "press"
    /\ keys' = [keys EXCEPT
                  !.pressed = Append(@, Head(keys.todo)),
                  !.todo = Tail(@),
                  !.pc = IF Len(keys.todo) = 1 THEN "loop" ELSE "press",
                  !.i = IF Len(keys.todo) = 1 THEN @ + 1 ELSE @]
    /\ KeysFrame

\* page.keyboard.press throws: typeHumanLike rejects
K_Throw ==
    /\ keys.pc = "press"
    /\ keys' = [keys EXCEPT !.pc = "done", !.result = "error"]
    /\ KeysFrame

\* the loop is over: typeHumanLike resolves
K_Return ==
    /\ keys.pc = "loop"
    /\ keys.i >= Len(keys.text)
    /\ keys' = [keys EXCEPT !.pc = "done", !.result = "ok"]
    /\ KeysFrame

KeysNext ==
    \/ K_Decide
    \/ K_Press
    \/ K_Throw
    \/ K_Return

SpecKeys == KeysInit /\ [][KeysNext]_vars

(***************************************************************************)
(* The script of applyAntiDetectionScripts, run in one document.            *)
(* A statement fails when the host lacks what it needs: the object is       *)
(* missing or the property cannot be redefined.  injector.failing is what   *)
(* this host lacks.  ECMAScript rejects the redefinition of the length of   *)
(* an Array as enumerable, so a conforming engine always has                *)
(* "plugins.length" in it; the model also follows hosts that accept it, so  *)
(* that the statements after it are examined.                               *)
(***************************************************************************)
\* the most things one host lacks
MaxFailures == 2

\* The statements of the script in order: what each installs, whether it stands in
\* a try block (or behind a typeof test), and what it needs of the host.
Overrides == <<
    [name |-> "webdriver",            guarded |-> TRUE,  needs |-> "navigator.webdriver"],
    [name |-> "navigatorProxy",       guarded |-> TRUE,  needs |-> "window.navigator"],
    [name |-> "randomPlugins",        guarded |-> FALSE, needs |-> "nothing"],
    [name |-> "PluginClass",          guarded |-> FALSE, needs |-> "Plugin"],
    [name |-> "plugins.length",       guarded |-> FALSE, needs |-> "plugins.length"],
    [name |-> "PluginArray",          guarded |-> FALSE, needs |-> "PluginArray"],
    [name |-> "navigator.plugins",    guarded |-> FALSE, needs |-> "navigator.plugins"],
    [name |-> "mimeTypes",            guarded |-> FALSE, needs |-> "nothing"],
    [name |-> "MimeTypeArray",        guarded |-> FALSE, needs |-> "MimeTypeArray"],
    [name |-> "navigator.mimeTypes",  guarded |-> FALSE, needs |-> "navigator.mimeTypes"],
    [name |-> "window.chrome",        guarded |-> FALSE, needs |-> "window.chrome"],
    [name |-> "toDataURL",            guarded |-> FALSE, needs |-> "HTMLCanvasElement"],
    [name |-> "getImageData",         guarded |-> FALSE, needs |-> "CanvasRenderingContext2D"],
    [name |-> "getParameter",         guarded |-> FALSE, needs |-> "WebGLRenderingContext"],
    [name |-> "getParameter2",        guarded |-> TRUE,  needs |-> "WebGL2RenderingContext"],
    [name |-> "hardwareConcurrency",  guarded |-> FALSE, needs |-> "navigator.hardwareConcurrency"],
    [name |-> "deviceMemory",         guarded |-> FALSE, needs |-> "navigator.deviceMemory"],
    [name |-> "languages",            guarded |-> FALSE, needs |-> "navigator.languages"],
    [name |-> "platform",             guarded |-> TRUE,  needs |-> "navigator.platform"],
    [name |-> "oscpu",                guarded |-> TRUE,  needs |-> "navigator.oscpu"],
    [name |-> "permissions.query",    guarded |-> FALSE, needs |-> "navigator.permissions"],
    [name |-> "history.length",       guarded |-> FALSE, needs |-> "history.length"],
    [name |-> "addEventListener",     guarded |-> FALSE, needs |-> "nothing"],
    [name |-> "simulateFocusEvents",  guarded |-> FALSE, needs |-> "nothing"] >>

\* What a host can lack.
HostConditions == {Overrides[k].needs : k \in DOMAIN Overrides} \ {"nothing"}

\* pluginData: the names
pluginData == <<"Chrome PDF Plugin", "Chrome PDF Viewer", "Native Client",
                "Chromium PDF Viewer">>

\* pluginData.slice(0, 2 + Math.floor(Math.random() * 3)), random in thousandths
RandomPlugins(random) == SubSeq(pluginData, 1, 2 + ((random * 3) \div 1000))

\* plugins[index], index counted from 0: undefined past the end
PluginAt(plugins, index) ==
    IF index + 1 \in DOMAIN plugins THEN Some(plugins[index + 1]) ELSE Undef

\* const mimeTypes = [...]
MimeTypes(plugins) == <<
    [type |-> "application/pdf",                 enabledPlugin |-> PluginAt(plugins, 0)],
    [type |-> "application/x-google-chrome-pdf", enabledPlugin |-> PluginAt(plugins, 0)],
    [type |-> "application/x-nacl",              enabledPlugin |-> PluginAt(plugins, 2)],
    [type |-> "application/x-pnacl",             enabledPlugin |-> PluginAt(plugins, 2)] >>

InjectorInit ==
    /\ ControllerIdle
    /\ \E failing \in SUBSET HostConditions :
          /\ Cardinality(failing) <= MaxFailures
          /\ injector = [pc |-> "run", k |-> 1, failing |-> failing, applied |-> {},
                         plugins |-> <<>>, mimeTypes |-> <<>>]
    /\ scroll = <<>>
    /\ pointer = <<>>
    /\ keys = <<>>
    /\ canvas = <<>>
    /\ path = <<>>
    /\ multi = <<>>
    /\ sched = <<>>
    /\ codec = <<>>

InjectorFrame == UNCHANGED <<controllerVars, scroll, pointer, keys, canvas, path,
                         multi, sched, codec>>

\* The statement the script is at.
Statement == Overrides[injector.k]

\* The statement has what it needs.
HostAllows == Statement.needs \notin injector.failing

\* const randomPlugins = pluginData.slice(...); const plugins = randomPlugins.map(...)
IJ_RandomPlugins ==
    /\ injector.pc = "run"
    /\ injector.k <= Len(Overrides)
    /\ Statement.name = "randomPlugins"
    /\ \E random \in RandomPermille :
          injector' = [injector EXCEPT !.k = @ + 1,
                                       !.applied = @ \cup {Statement.name},
                                       !.plugins = RandomPlugins(random)]
    /\ InjectorFrame

\* const mimeTypes = [...]
IJ_MimeTypes ==
    /\ injector.pc = "run"
    /\ injector.k <= Len(Overrides)
    /\ Statement.name = "mimeTypes"
    /\ injector' = [injector EXCEPT !.k = @ + 1,
                                    !.applied = @ \cup {Statement.name},
                                    !.mimeTypes = MimeTypes(injector.plugins)]
    /\ InjectorFrame

\* any other statement, done
IJ_Apply ==
    /\ injector.pc = "run"
    /\ injector.k <= Len(Overrides)
    /\ Statement.name \notin {"randomPlugins", "mimeTypes"}
    /\ HostAllows
    /\ injector' = [injector EXCEPT !.k = @ + 1, !.applied = @ \cup {Statement.name}]
    /\ InjectorFrame

\* catch { } , or the typeof test is false: the script goes on
IJ_Caught ==
    /\ injector.pc = "run"
    /\ injector.k <= Len(Overrides)
    /\ ~HostAllows
    /\ Statement.guarded
    /\ injector' = [injector EXCEPT !.k = @ + 1]
    /\ InjectorFrame

\* a statement outside every try block fails: the script ends there
IJ_Throw ==
    /\ injector.pc = "run"
    /\ injector.k <= Len(Overrides)
    /\ ~HostAllows
    /\ ~Statement.guarded
    /\ injector' = [injector EXCEPT !.pc = "thrown"]
    /\ InjectorFrame

\* the end of the script
IJ_Return ==
    /\ injector.pc = "run"
    /\ injector.k > Len(Overrides)
    /\ injector' = [injector EXCEPT !.pc = "done"]
    /\ InjectorFrame

InjectorNext ==
    \/ IJ_RandomPlugins
    \/ IJ_MimeTypes
    \/ IJ_Apply
    \/ IJ_Caught
    \/ IJ_Throw
    \/ IJ_Return

SpecInjector == InjectorInit /\ [][InjectorNext]_vars

(***************************************************************************)
(* The canvas overrides of the injected script, installed in a page of one  *)
(* session.  A page load runs the script again: it installs the same two    *)
(* functions, which keep nothing between calls and take nothing from the    *)
(* profile.                                                                *)
(***************************************************************************)
\* the page loads of the session
MaxLoads == 2

\* The canvases: a small one, one at the limit, a large one, a large hidden one.
Canvases == {[width |-> 10, height |-> 10, hidden |-> FALSE],
             [width |-> 20, height |-> 20, hidden |-> FALSE],
             [width |-> 300, height |-> 300, hidden |-> FALSE],
             [width |-> 300, height |-> 300, hidden |-> TRUE]}

\* The decoded image of a canvas: n bytes b, for lengths below and above the
\* first byte that is touched.
Images == {[i \in 1..n |-> b] : n \in {20, 51}, b \in {0, 255}}

\* One pixel: red, green, blue, alpha.
Pixels == {<<0, 255, 255, 255>>, <<0, 255, 255, 0>>}

\* this.width <= 20 || this.height <= 20 || display none || visibility hidden || ...
IsSuspiciousCanvas(c) == c.width <= 20 \/ c.height <= 20 \/ c.hidden

\* sw < 20 || sh < 20
IsSuspiciousRegion(sw, sh) == sw < 20 \/ sh < 20

\* i % 50 === 0 && i > 10, i counted from 0
Touched(n) == {i \in 0..(n - 1) : i % 50 = 0 /\ i > 10}

\* The override of toDataURL: the decoded data with every touched byte moved by
\* Math.random() > 0.5 ? 1 : -1, & 0xFF.  draws[i] is the value of Math.random()
\* for byte i, in thousandths.
ToDataURL(c, draws) ==
    IF IsSuspiciousCanvas(c)
      THEN [j \in 1..Len(c.image) |->
              IF (j - 1) \in Touched(Len(c.image))
                THEN (c.image[j] + (IF draws[j - 1] > 500 THEN 1 ELSE -1)) % 256
                ELSE c.image[j]]
      ELSE c.image

\* Math.max(0, Math.min(255, v + change))
Clamp(v) == IF v < 0 THEN 0 ELSE IF v > 255 THEN 255 ELSE v

\* The override of getImageData on the whole canvas: for a pixel that is not
\* transparent each of the three colours is, when Math.random() > 0.92, moved by
\* Math.floor(Math.random() * 3) - 1.  gate and change hold the two draws.
GetImageData(c, gate, change) ==
    IF IsSuspiciousRegion(c.width, c.height) /\ c.pixel[4] > 0
      THEN [j \in 1..4 |->
              IF j <= 3 /\ gate[j] > 920
                THEN Clamp(c.pixel[j] + ((change[j] * 3) \div 1000) - 1)
                ELSE c.pixel[j]]
      ELSE c.pixel

CanvasInit ==
    /\ ControllerIdle
    /\ \E c \in Canvases, image \in Images, pixel \in Pixels :
          canvas = [width |-> c.width, height |-> c.height, hidden |-> c.hidden,
                    image |-> image, pixel |-> pixel, loads |-> 1,
                    urlFirst |-> Undef, urlLast |-> Undef,
                    dataFirst |-> Undef, dataLast |-> Undef]
    /\ scroll = <<>>
    /\ pointer = <<>>
    /\ keys = <<>>
    /\ injector = <<>>
    /\ path = <<>>
    /\ multi = <<>>
    /\ sched = <<>>
    /\ codec = <<>>

CanvasFrame == UNCHANGED <<controllerVars, scroll, pointer, keys, injector, path,
                         multi, sched, codec>>

\* canvas.toDataURL()
CV_ToDataURL ==
    /\ \E draws \in [Touched(Len(canvas.image)) -> RandomPermille] :
          LET result == ToDataURL(canvas, draws)
          IN  canvas' = [canvas EXCEPT
                           !.urlFirst = IF @ = Undef THEN Some(result) ELSE @,
                           !.urlLast = Some(result)]
    /\ CanvasFrame

\* context.getImageData(0, 0, width, height)
CV_GetImageData ==
    /\ \E gate \in [1..3 -> RandomPermille], change \in [1..3 -> RandomPermille] :
          LET result == GetImageData(canvas, gate, change)
          IN  canvas' = [canvas EXCEPT
                           !.dataFirst = IF @ = Undef THEN Some(result) ELSE @,
                           !.dataLast = Some(result)]
    /\ CanvasFrame

\* the page is loaded again and draws the same canvas
CV_Load ==
    /\ canvas.loads < MaxLoads
    /\ canvas' = [canvas EXCEPT !.loads = @ + 1]
    /\ CanvasFrame

CanvasNext ==
    \/ CV_ToDataURL
    \/ CV_GetImageData
    \/ CV_Load

SpecCanvas == CanvasInit /\ [][CanvasNext]_vars

(***************************************************************************)
(* createBezierPath(start, end, controlPointsCount, randomness) on its own. *)
(* Coordinates are whole pixels.  The parameter t of a point of the curve   *)
(* is the fraction e / numPoints^2, and a point of the curve is kept as its *)
(* coordinates times path.den, so that the curve is computed exactly; the   *)
(* control points are rounded down to whole pixels.                         *)
(***************************************************************************)
Max(a, b) == IF a >= b THEN a ELSE b

\* Math.sqrt, rounded down
ISqrt(n) == CHOOSE r \in 0..200 : r * r <= n /\ n < (r + 1) * (r + 1)

\* the arguments start and end
Starts == {[x |-> 0, y |-> 0], [x |-> 40, y |-> 100]}
Ends == {[x |-> 0, y |-> 0], [x |-> 40, y |-> 0], [x |-> 100, y |-> 100],
         [x |-> 40, y |-> 100]}

\* controlPointsCount: none, one, the default
ControlCounts == {0, 1, 2}

\* randomness, in tenths: none, the default
Randomness == {0, 5}

\* (end.x - start.x) ** 2 + (end.y - start.y) ** 2
SquaredDistance(start, end) ==
    (end.x - start.x) * (end.x - start.x) + (end.y - start.y) * (end.y - start.y)

\* The t of control point i (counted from 0) of count, as a fraction: 0.5 for a
\* single point, else (i + 1) / (count + 1) through t < 0.5 ? 2 * t * t :
\* -1 + (4 - 2 * t) * t.
ControlT(i, count) ==
    IF count = 1 THEN [n |-> 1, d |-> 2]
    ELSE IF 2 * (i + 1) < count + 1
           THEN [n |-> 2 * (i + 1) * (i + 1), d |-> (count + 1) * (count + 1)]
           ELSE [n |-> (4 * (count + 1) - 2 * (i + 1)) * (i + 1)
                         - (count + 1) * (count + 1),
                 d |-> (count + 1) * (count + 1)]

\* getPointWithVariance(t, varianceFactor); rx and ry are the two values of
\* Math.random(), in thousandths
GetPointWithVariance(start, end, t, varianceFactor, rx, ry) ==
    LET maxVariance == (ISqrt(SquaredDistance(start, end)) * varianceFactor) \div 10
    IN  [x |-> start.x + ((end.x - start.x) * t.n) \div t.d
                 + ((rx * 2 - 1000) * maxVariance) \div 1000,
         y |-> start.y + ((end.y - start.y) * t.n) \div t.d
                 + ((ry * 2 - 1000) * maxVariance) \div 1000]

\* A mutant of NumPoints: without the floor of ten.
NumPointsUnbounded(start, end) == ISqrt(SquaredDistance(start, end)) \div 10

\* const numPoints = Math.max(10, Math.floor(Math.sqrt(...) / 10))
NumPoints(start, end) == Max(10, ISqrt(SquaredDistance(start, end)) \div 10)

\* easedT for t = i / numPoints, as the numerator e of e / numPoints^2
EasedT(i, numPoints) ==
    IF 5 * i < numPoints THEN 5 * i * i
    ELSE IF 5 * i > 4 * numPoints
           THEN numPoints * numPoints - 5 * (numPoints - i) * (numPoints - i)
           ELSE i * numPoints

\* calculateBezierPoint(t), De Casteljau: t = e / d; the result is the point times
\* d ^ (Len(allPoints) - 1)
RECURSIVE CalculateBezierPoint(_, _, _)
CalculateBezierPoint(currentPoints, e, d) ==
    IF Len(currentPoints) = 1 THEN currentPoints[1]
    ELSE CalculateBezierPoint(
           [j \in 1..(Len(currentPoints) - 1) |->
              [x |-> (d - e) * currentPoints[j].x + e * currentPoints[j + 1].x,
               y |-> (d - e) * currentPoints[j].y + e * currentPoints[j + 1].y]],
           e, d)

PathInit ==
    /\ ControllerIdle
    /\ \E start \in Starts, end \in Ends, count \in ControlCounts, r \in Randomness :
          path = [pc |-> "control", start |-> start, end |-> end,
                  controlPointsCount |-> count, randomness |-> r,
                  controlPoints |-> <<>>, numPoints |-> 0, den |-> 1, i |-> 0,
                  points |-> <<>>]
    /\ scroll = <<>>
    /\ pointer = <<>>
    /\ keys = <<>>
    /\ injector = <<>>
    /\ canvas = <<>>
    /\ multi = <<>>
    /\ sched = <<>>
    /\ codec = <<>>

PathFrame == UNCHANGED <<controllerVars, scroll, pointer, keys, injector, canvas,
                         multi, sched, codec>>

\* for (let i = 0; i < controlPointsCount; i++) controlPoints.push(...)
CB_ControlPoint ==
    /\ path.pc = "control"
    /\ path.i < path.controlPointsCount
    /\ \E rx \in RandomPermille, ry \in RandomPermille :
          path' = [path EXCEPT
                     !.controlPoints =
                        Append(@, GetPointWithVariance(path.start, path.end,
                                      ControlT(path.i, path.controlPointsCount),
                                      path.randomness, rx, ry)),
                     !.i = @ + 1]
    /\ PathFrame

\* const numPoints = ...
CB_NumPoints ==
    /\ path.pc = "control"
    /\ path.i >= path.controlPointsCount
    /\ LET numPoints == NumPoints(path.start, path.end)
       IN  path' = [path EXCEPT
                      !.pc = "points",
                      !.numPoints = numPoints,
                      !.den = Pow(numPoints * numPoints, Len(path.controlPoints) + 1),
                      !.i = 0]
    /\ PathFrame

\* for (let i = 0; i <= numPoints; i++) points.push(calculateBezierPoint(easedT))
CB_Point ==
    /\ path.pc = "points"
    /\ path.i <= path.numPoints
    /\ path' = [path EXCEPT
                  !.points =
                     Append(@, CalculateBezierPoint(
                                  <<path.start>> \o path.controlPoints \o <<path.end>>,
                                  EasedT(path.i, path.numPoints),
                                  path.numPoints * path.numPoints)),
                  !.i = @ + 1]
    /\ PathFrame

\* return points
CB_Return ==
    /\ path.pc = "points"
    /\ path.i > path.numPoints
    /\ path' = [path EXCEPT !.pc = "done"]
    /\ PathFrame

PathNext ==
    \/ CB_ControlPoint
    \/ CB_NumPoints
    \/ CB_Point
    \/ CB_Return

SpecPath == PathInit /\ [][PathNext]_vars

(***************************************************************************)
(* createMultiSegmentPath(start, end, complexity) on its own.              *)
(* A point of a path is kept as [x, y, den]: the coordinates times den.     *)
(***************************************************************************)
\* createBezierPath as one function of its arguments and of the values of
\* Math.random() for the control points (draws, two for each point).
CreateBezierPath(start, end, controlPointsCount, randomness, draws) ==
    LET controlPoints ==
            [i \in 1..controlPointsCount |->
               GetPointWithVariance(start, end, ControlT(i - 1, controlPointsCount),
                                    randomness, draws[2 * i - 1], draws[2 * i])]
        numPoints == NumPoints(start, end)
        den == Pow(numPoints * numPoints, controlPointsCount + 1)
    IN  [i \in 1..(numPoints + 1) |->
           LET p == CalculateBezierPoint(<<start>> \o controlPoints \o <<end>>,
                                         EasedT(i - 1, numPoints),
                                         numPoints * numPoints)
           IN  [x |-> p.x, y |-> p.y, den |-> den]]

\* the argument end; start is the origin
MultiEnds == {[x |-> 0, y |-> 0], [x |-> 60, y |-> 0], [x |-> 80, y |-> 60]}

\* complexity, in tenths: 0, the default 0.5, 1
Complexities == {0, 5, 10}

\* The values of Math.random() for the control points of one curve.
ControlDraws == {<<0, 0, 0, 0>>, <<999, 0, 500, 999>>}

\* distance < 100 || Math.random() > complexity
SingleCurve(distance, random, complexity) ==
    distance < 100 \/ random > complexity * 100

\* 1 + Math.floor(Math.random() * 3 * complexity)
SegmentCount(random, complexity) == 1 + ((random * 3 * complexity) \div 10000)

\* distance * 0.2 * complexity
RandomFactor(distance, complexity) == (distance * 2 * complexity) \div 100

\* start + (end - start) * t for t = i / segmentCount
WaypointBase(start, end, i, segmentCount) ==
    [x |-> start.x + ((end.x - start.x) * i) \div segmentCount,
     y |-> start.y + ((end.y - start.y) * i) \div segmentCount]

\* A mutant of Waypoint: the last waypoint is drawn like the others.
WaypointAllDrawn(start, end, i, segmentCount, randomFactor, rx, ry) ==
    LET base == WaypointBase(start, end, i, segmentCount)
    IN  [x |-> base.x + ((rx * 2 - 1000) * randomFactor) \div 1000,
         y |-> base.y + ((ry * 2 - 1000) * randomFactor) \div 1000]

\* the body of the waypoint loop: end for the last one, else the base position
\* moved by (Math.random() * 2 - 1) * randomFactor on each axis
Waypoint(start, end, i, segmentCount, randomFactor, rx, ry) ==
    IF i = segmentCount THEN end
    ELSE LET base == WaypointBase(start, end, i, segmentCount)
         IN  [x |-> base.x + ((rx * 2 - 1000) * randomFactor) \div 1000,
              y |-> base.y + ((ry * 2 - 1000) * randomFactor) \div 1000]

MultiInit ==
    /\ ControllerIdle
    /\ \E end \in MultiEnds, complexity \in Complexities :
          multi = [pc |-> "start", start |-> [x |-> 0, y |-> 0], end |-> end,
                   complexity |-> complexity,
                   distance |-> ISqrt(SquaredDistance([x |-> 0, y |-> 0], end)),
                   branch |-> "none", segmentCount |-> 0, waypoints |-> <<>>,
                   i |-> 0, fullPath |-> <<>>]
    /\ scroll = <<>>
    /\ pointer = <<>>
    /\ keys = <<>>
    /\ injector = <<>>
    /\ canvas = <<>>
    /\ path = <<>>
    /\ sched = <<>>
    /\ codec = <<>>

MultiFrame == UNCHANGED <<controllerVars, scroll, pointer, keys, injector, canvas, path,
                          sched, codec>>

\* if (distance < 100 || Math.random() > complexity) return createBezierPath(
\*   start, end, 2, 0.3 + Math.random() * 0.4)
MS_Single ==
    /\ multi.pc = "start"
    /\ \E random \in RandomPermille, r \in RandomPermille, draws \in ControlDraws :
          /\ SingleCurve(multi.distance, random, multi.complexity)
          /\ multi' = [multi EXCEPT
                         !.pc = "done",
                         !.branch = "single",
                         !.fullPath = CreateBezierPath(multi.start, multi.end, 2,
                                                       3 + (r * 4) \div 1000, draws)]
    /\ MultiFrame

\* const segmentCount = ...; const waypoints = [start]
MS_SegmentCount ==
    /\ multi.pc = "start"
    /\ \E random \in RandomPermille, r \in RandomPermille :
          /\ ~SingleCurve(multi.distance, random, multi.complexity)
          /\ multi' = [multi EXCEPT
                         !.pc = "waypoints",
                         !.branch = "segments",
                         !.segmentCount = SegmentCount(r, multi.complexity),
                         !.waypoints = <<multi.start>>,
                         !.i = 1]
    /\ MultiFrame

\* for (let i = 1; i <= segmentCount; i++) waypoints.push(...)
MS_Waypoint ==
    /\ multi.pc = "waypoints"
    /\ multi.i <= multi.segmentCount
    /\ \E rx \in RandomPermille, ry \in RandomPermille :
          multi' = [multi EXCEPT
                      !.waypoints =
                         Append(@, Waypoint(multi.start, multi.end, multi.i,
                                            multi.segmentCount,
                                            RandomFactor(multi.distance, multi.complexity),
                                            rx, ry)),
                      !.i = @ + 1]
    /\ MultiFrame

\* let fullPath = []
MS_Join ==
    /\ multi.pc = "waypoints"
    /\ multi.i > multi.segmentCount
    /\ multi' = [multi EXCEPT !.pc = "segments", !.i = 0]
    /\ MultiFrame

\* const segment = createBezierPath(waypoints[i], waypoints[i + 1],
\*   1 + Math.floor(Math.random() * 2), 0.2 + Math.random() * 0.3);
\* if (i > 0 && fullPath.length > 0) segment.shift(); fullPath = fullPath.concat(segment)
MS_Segment ==
    /\ multi.pc = "segments"
    /\ multi.i < Len(multi.waypoints) - 1
    /\ \E rc \in RandomPermille, r \in RandomPermille, draws \in ControlDraws :
          LET segment == CreateBezierPath(multi.waypoints[multi.i + 1],
                                          multi.waypoints[multi.i + 2],
                                          1 + (rc * 2) \div 1000,
                                          2 + (r * 3) \div 1000, draws)
          IN  multi' = [multi EXCEPT
                          !.fullPath =
                             @ \o (IF multi.i > 0 /\ Len(multi.fullPath) > 0
                                     THEN Tail(segment) ELSE segment),
                          !.i = @ + 1]
    /\ MultiFrame

\* return fullPath
MS_Return ==
    /\ multi.pc = "segments"
    /\ multi.i >= Len(multi.waypoints) - 1
    /\ multi' = [multi EXCEPT !.pc = "done"]
    /\ MultiFrame

MultiNext ==
    \/ MS_Single
    \/ MS_SegmentCount
    \/ MS_Waypoint
    \/ MS_Join
    \/ MS_Segment
    \/ MS_Return

SpecMulti == MultiInit /\ [][MultiNext]_vars

(***************************************************************************)
(* SchedulerService: start(), stop(), checkNow() and the timers.            *)
(* sched.timers are the timers that are set and have not fired,             *)
(* sched.interval is the field this.interval (0 for null), sched.runs       *)
(* counts the invocations of the callback that have not settled, by the     *)
(* code that awaits them.  A call and the code up to its first await are    *)
(* one step; so are the settling of the callback and what follows it.       *)
(***************************************************************************)
\* the timers that exist at one time
MaxTimers == 3

\* the invocations of the callback in progress at one time
MaxRuns == 2

\* A timer handle that is not in use.
FreeTimers(s) == (1..MaxTimers) \ (s.timers \cup {s.interval})

\* scheduleNext(): this.interval = setTimeout(...)
ScheduleNext(s, t) == [s EXCEPT !.interval = t, !.timers = @ \cup {t}]

\* The callback is invoked by the code at: "checkNow" or "timer".
BeginRun(s, at) == [s EXCEPT !.runs[at] = @ + 1]

RunsInProgress(s) == s.runs["checkNow"] + s.runs["timer"]

SchedInit ==
    /\ ControllerIdle
    /\ \E executeImmediately \in BOOLEAN :
          sched = [isRunning |-> FALSE, interval |-> 0, timers |-> {},
                   runs |-> [checkNow |-> 0, timer |-> 0],
                   executeImmediately |-> executeImmediately]
    /\ scroll = <<>>
    /\ pointer = <<>>
    /\ keys = <<>>
    /\ injector = <<>>
    /\ canvas = <<>>
    /\ path = <<>>
    /\ multi = <<>>
    /\ codec = <<>>

SchedFrame == UNCHANGED <<controllerVars, scroll, pointer, keys, injector, canvas, path,
                          multi, codec>>

\* start()
SC_Start ==
    /\ IF sched.isRunning
         THEN UNCHANGED sched
         ELSE IF sched.executeImmediately
                THEN /\ RunsInProgress(sched) < MaxRuns
                     /\ sched' = BeginRun([sched EXCEPT !.isRunning = TRUE], "checkNow")
                ELSE \E t \in FreeTimers(sched) :
                        sched' = ScheduleNext([sched EXCEPT !.isRunning = TRUE], t)
    /\ SchedFrame

\* checkNow(), called from outside: await this.callback()
SC_CheckNow ==
    /\ RunsInProgress(sched) < MaxRuns
    /\ sched' = BeginRun(sched, "checkNow")
    /\ SchedFrame

\* stop()
SC_Stop ==
    /\ sched' = [sched EXCEPT !.timers = @ \ {sched.interval},
                              !.interval = 0,
                              !.isRunning = FALSE]
    /\ SchedFrame

\* a timer expires: await this.callback()
SC_TimerFires ==
    /\ RunsInProgress(sched) < MaxRuns
    /\ \E t \in sched.timers :
          sched' = BeginRun([sched EXCEPT !.timers = @ \ {t}], "timer")
    /\ SchedFrame

\* the callback resolves: checkNow and the timer both go on to
\* if (this.isRunning) this.scheduleNext()
SC_RunResolves ==
    /\ \E at \in {"checkNow", "timer"} :
          /\ sched.runs[at] > 0
          /\ \/ /\ sched.isRunning
                /\ \E t \in FreeTimers(sched) :
                      sched' = ScheduleNext([sched EXCEPT !.runs[at] = @ - 1], t)
             \/ /\ ~sched.isRunning
                /\ sched' = [sched EXCEPT !.runs[at] = @ - 1]
    /\ SchedFrame

\* the callback rejects inside the timer: catch logs, finally schedules
SC_TimerRunRejects ==
    /\ sched.runs["timer"] > 0
    /\ \/ /\ sched.isRunning
          /\ \E t \in FreeTimers(sched) :
                sched' = ScheduleNext([sched EXCEPT !.runs["timer"] = @ - 1], t)
       \/ /\ ~sched.isRunning
          /\ sched' = [sched EXCEPT !.runs["timer"] = @ - 1]
    /\ SchedFrame

\* the callback rejects inside checkNow: catch logs and throws, nothing is scheduled
SC_CheckNowRejects ==
    /\ sched.runs["checkNow"] > 0
    /\ sched' = [sched EXCEPT !.runs["checkNow"] = @ - 1]
    /\ SchedFrame

SchedNext ==
    \/ SC_Start
    \/ SC_CheckNow
    \/ SC_Stop
    \/ SC_TimerFires
    \/ SC_RunResolves
    \/ SC_TimerRunRejects
    \/ SC_CheckNowRejects

SpecSched == SchedInit /\ [][SchedNext]_vars

(***************************************************************************)
(* saveCookiesToFile, parseCookieString and loadCookies on a jar.           *)
(* A string is the sequence of its characters.                              *)
(***************************************************************************)
\* the cookies of a jar
MaxCookies == 2

\* s.split(sep) for a separator of one character
RECURSIVE Split(_, _)
Split(s, sep) ==
    IF \E i \in 1..Len(s) : s[i] = sep
      THEN LET i == CHOOSE k \in 1..Len(s) :
                       s[k] = sep /\ \A j \in 1..(k - 1) : s[j] # sep
           IN  <<SubSeq(s, 1, i - 1)>> \o Split(SubSeq(s, i + 1, Len(s)), sep)
      ELSE <<s>>

\* parts.join(sep)
RECURSIVE Join(_, _)
Join(parts, sep) ==
    IF parts = <<>> THEN <<>>
    ELSE IF Len(parts) = 1 THEN parts[1]
    ELSE parts[1] \o sep \o Join(Tail(parts), sep)

\* s.trim()
RECURSIVE Trim(_)
Trim(s) ==
    IF s = <<>> THEN s
    ELSE IF s[1] = " " THEN Trim(Tail(s))
    ELSE IF s[Len(s)] = " " THEN Trim(SubSeq(s, 1, Len(s) - 1))
    ELSE s

\* s.toLowerCase(), for the letters of the jars below
Lower(s) ==
    [i \in 1..Len(s) |->
       IF s[i] = "C" THEN "c" ELSE IF s[i] = "L" THEN "l" ELSE IF s[i] = "O" THEN "o"
       ELSE s[i]]

Range(f) == {f[i] : i \in DOMAIN f}

\* The elements of a sequence that keep, in order.
RECURSIVE Filter(_, _)
Filter(seq, keep) ==
    IF seq = <<>> THEN <<>>
    ELSE (IF seq[1] \in keep THEN <<seq[1]>> ELSE <<>>) \o Filter(Tail(seq), keep)

\* One line of saveCookiesToFile: the parts that are truthy, joined by '; '.
CookieLine(c) ==
    Join(<<c.name \o <<"=">> \o c.value>>
         \o (IF c.domain # <<>> THEN <<<<"d", "o", "m", "a", "i", "n", "=">> \o c.domain>>
                                ELSE <<>>)
         \o (IF c.path # <<>> THEN <<<<"p", "a", "t", "h", "=">> \o c.path>> ELSE <<>>)
         \o (IF c.secure THEN <<<<"s", "e", "c", "u", "r", "e">>>> ELSE <<>>)
         \o (IF c.sameSite # <<>>
               THEN <<<<"s", "a", "m", "e", "s", "i", "t", "e", "=">> \o c.sameSite>>
               ELSE <<>>),
         <<";", " ">>)

\* saveCookiesToFile: the string written and returned
SaveCookiesToFile(jar) ==
    Join([i \in 1..Len(jar) |-> CookieLine(jar[i])], <<"\n">>)

\* parts[i], or the empty string where the destructuring gives undefined
Part(parts, i) == IF i <= Len(parts) THEN parts[i] ELSE <<>>

\* The loop over the attributes of one line.
RECURSIVE ApplyAttributes(_, _)
ApplyAttributes(cookie, attributes) ==
    IF attributes = <<>> THEN cookie
    ELSE LET kv == Split(attributes[1], "=")
             key == Trim(Lower(Part(kv, 1)))
             val == Trim(Lower(Part(kv, 2)))
             c1 == IF key = <<"d", "o", "m", "a", "i", "n">>
                     THEN [cookie EXCEPT !.domain = val] ELSE cookie
             c2 == IF key = <<"p", "a", "t", "h">> THEN [c1 EXCEPT !.path = val] ELSE c1
             c3 == IF key = <<"s", "e", "c", "u", "r", "e">>
                     THEN [c2 EXCEPT !.secure = TRUE] ELSE c2
             c4 == IF key = <<"s", "a", "m", "e", "s", "i", "t", "e">>
                     THEN [c3 EXCEPT !.sameSite = val] ELSE c3
         IN  ApplyAttributes(c4, Tail(attributes))

\* The map callback of parseCookieString: one line to one cookie.
ParseLine(line) ==
    LET parts == [i \in 1..Len(Split(line, ";")) |-> Trim(Split(line, ";")[i])]
        nv == Split(parts[1], "=")
    IN  ApplyAttributes([name |-> Part(nv, 1), value |-> Part(nv, 2), domain |-> <<>>,
                         path |-> <<"/">>, secure |-> FALSE,
                         sameSite |-> <<"N", "o", "n", "e">>],
                        Tail(parts))

\* parseCookieString: split('\n'), filter the blank lines, map
ParseCookieString(text) ==
    LET lines == Filter(Split(text, "\n"), {l \in Range(Split(text, "\n")) : Trim(l) # <<>>})
    IN  [i \in 1..Len(lines) |-> ParseLine(lines[i])]

\* loadCookies: validCookies
ValidCookie(c) ==
    [c EXCEPT !.domain = IF @ = <<>> THEN <<".", "o", "z", "o", "n", ".", "r", "u">> ELSE @,
              !.path = IF @ = <<>> THEN <<"/">> ELSE @,
              !.sameSite = <<"N", "o", "n", "e">>,
              !.secure = TRUE]

\* The cookies a context gives: values with and without '=', domains and paths in
\* lower and upper case.
JarCookies ==
    [name : {<<"n">>},
     value : {<<"v">>, <<>>, <<"v", "=", "w">>, <<"v", "=">>},
     domain : {<<".", "o">>, <<".", "O">>},
     path : {<<"/">>, <<"/", "C">>},
     secure : BOOLEAN,
     sameSite : {<<"L", "a", "x">>}]

CodecInit ==
    /\ ControllerIdle
    /\ \E n \in 0..MaxCookies : \E jar \in [1..n -> JarCookies] :
          codec = [pc |-> "save", jar |-> jar, text |-> <<>>, parsed |-> <<>>,
                   loaded |-> <<>>]
    /\ scroll = <<>>
    /\ pointer = <<>>
    /\ keys = <<>>
    /\ injector = <<>>
    /\ canvas = <<>>
    /\ path = <<>>
    /\ multi = <<>>
    /\ sched = <<>>

CodecFrame == UNCHANGED <<controllerVars, scroll, pointer, keys, injector, canvas, path,
                          multi, sched>>

\* this.cookies = await saveCookiesToFile('.cookies', relevantCookies)
CK_Save ==
    /\ codec.pc = "save"
    /\ codec' = [codec EXCEPT !.pc = "parse", !.text = SaveCookiesToFile(codec.jar)]
    /\ CodecFrame

\* const cookies = parseCookieString(cookiesString)
CK_Parse ==
    /\ codec.pc = "parse"
    /\ codec' = [codec EXCEPT !.pc = "load", !.parsed = ParseCookieString(codec.text)]
    /\ CodecFrame

\* await context.addCookies(validCookies)
CK_Load ==
    /\ codec.pc = "load"
    /\ codec' = [codec EXCEPT
                   !.pc = "loaded",
                   !.loaded = [i \in 1..Len(codec.parsed) |-> ValidCookie(codec.parsed[i])]]
    /\ CodecFrame

CodecNext ==
    \/ CK_Save
    \/ CK_Parse
    \/ CK_Load

SpecCodec == CodecInit /\ [][CodecNext]_vars

(***************************************************************************)
(* withRetry: number of invocations                                        *)
(***************************************************************************)
\* The attempts withRetry grants: the merged maxRetries plus the first one.
AttemptsGranted == MergeMaxRetries(wrOpt.maxRetries) + 1

\* C1: when the caller supplies maxRetries = N and every attempt of the action fails
\* with an error the policy retries, withRetry has invoked the action exactly N+1
\* times when it rethrows, and what it rethrows is an error of the action.
C1_ExactlyNPlusOneInvocations ==
    (/\ pc = "op_done"
     /\ wrFn = "generic"
     /\ wrOpt.maxRetries # Undef
     /\ ~wrHookErr
     /\ ret # OK
     /\ wrRetryable = wrCalls)
    => (wrCalls = Get(wrOpt.maxRetries) + 1 /\ ret \in ActionErrors)

\* C2: while no failed attempt has been classified as retryable, withRetry has invoked
\* the action at most once, has not called onRetry and has not slept; so a first
\* attempt that fails with a non-retryable error is the only one, whatever maxRetries
\* is, and its error is what withRetry rethrows.
C2_NonRetryableRethrownAtOnce ==
    /\ wrRetryable = 0 => (wrCalls <= 1 /\ wrOnRetry = 0 /\ wrSleeps = 0)
    /\ (pc = "op_done" /\ wrFn = "generic" /\ wrRetryable = 0 /\ ret # OK)
         => (wrCalls = 1 /\ ret \in ActionErrors /\ ~IsRetryable(wrOpt, ret))

\* A generic withRetry has rethrown the non-retryable error of its first attempt
\* although retries were left.
C2_Witness ==
    /\ pc = "op_done"
    /\ wrFn = "generic"
    /\ wrOpt.maxRetries = Some(1)
    /\ wrCalls = 1
    /\ wrRetryable = 0
    /\ ret \in ActionErrors

(***************************************************************************)
(* navigateWithRetry / executeWithRetry and the errors of the handler      *)
(***************************************************************************)
\* An attempt of navigateWithRetry or executeWithRetry has failed with an error raised
\* by handleAccessRestriction.
HandlerErrorSettles ==
    /\ pc = "wr_settle"
    /\ wrFn \in {"navigate", "execute"}
    /\ ret.from = "handler"

\* C3 (as the claim states it): an AccessRestricted raised by the handler is never
\* turned into a retry, so onRetry never runs on it.
C3_AccessRestrictedNeverRetried ==
    ~(/\ pc = "wr_onretry"
      /\ wrFn \in {"navigate", "execute"}
      /\ ret.from = "handler"
      /\ ret.msg = MsgAccessRestricted)

\* C3 (amended): an AccessRestricted raised by the handler is retried like a transient
\* error while attempts are left (onRetry is called next) and reaches the caller only
\* from the last attempt granted; a CaptchaDetected reaches the caller from the attempt
\* that raised it, with no onRetry call, no backoff delay and no further invocation.
C3_AccessRestrictedRetriedCaptchaNot ==
    [][HandlerErrorSettles =>
         IF ret.msg = MsgAccessRestricted /\ wrCalls < AttemptsGranted
           THEN pc' = "wr_onretry"
           ELSE /\ pc' = Head(stack)
                /\ ret' = ret
                /\ wrCalls' = wrCalls
                /\ wrOnRetry' = wrOnRetry
                /\ wrSleeps' = wrSleeps]_vars

\* navigateWithRetry has given up on AccessRestricted after using every attempt.
C3_Witness ==
    /\ pc = "op_done"
    /\ wrFn = "navigate"
    /\ ret.from = "handler"
    /\ ret.msg = MsgAccessRestricted
    /\ wrCalls = AttemptsGranted
    /\ wrOnRetry = wrCalls - 1
    /\ wrSleeps = wrCalls - 1

(***************************************************************************)
(* handleAccessRestriction                                                 *)
(***************************************************************************)
\* C4: when the handler settles after detecting a challenge through a restriction
\* phrase and that phrase is still on the page, it settles by raising; it does not
\* return normally.
C4_PersistingPhraseRaises ==
    (/\ pc = "h_end"
     /\ hDetected \in Phrases
     /\ hDetected \in page.phrases)
    => ret # OK

C6_AtMostTwoClicks ==
    /\ hClicks <= 2
    /\ hClicks = 2 => pc \in {"h_check2", "h_lastcheck", "h_end"}

\* Both clicks were completed, the restriction persisted and the handler gave up.
C6_Witness ==
    /\ pc = "h_end"
    /\ hClicks = 2
    /\ StillRestricted(page)
    /\ ret.msg = MsgAccessRestricted

(***************************************************************************)
(* close()                                                                 *)
(***************************************************************************)
\* C7: when close() settles after one of its steps failed, every later teardown step
\* whose resource exists has been attempted.
C7_LaterStepsAttempted ==
    (pc = "close_end" /\ closeFailed # {})
    => /\ contextRef => "context" \in closeTried
       /\ browserRef => "browser" \in closeTried

\* C8: close() never raises: OzonBrowser.close() settles with no error, and so do the
\* close() inside a failing init() and the one inside OzonService.close(), in every
\* state of the controller.
C8_CloseNeverRaises ==
    pc \in {"close_end", "init_rethrow", "svc_closed"} => ret = OK

\* close() settles normally although closing the page failed.
C8_Witness ==
    /\ pc = "close_end"
    /\ "page" \in closeFailed
    /\ ret = OK

(***************************************************************************)
(* The cookie jar                                                          *)
(***************************************************************************)
\* C9 (as the claim states it): but for what the site sets during a navigation and
\* the lifetime of the context, the cookies of the context, the controller's blob and
\* the persisted blob change only at the load of init() and at the save after an
\* extraction.
C9_TwoMutationPoints ==
    [][pc \notin {"init_cookies", "gp_extract", "nav_goto", "gp_goto", "init_context",
                  "close_context"}
         => UNCHANGED <<blob, file, contextJar>>]_vars

\* C9 (amended): the controller's blob and the persisted blob are rewritten only by
\* saveCookies, both with the ozon.ru cookies of the context, and saveCookies runs after
\* an extraction and at the start of every close() that finds a context (also after a
\* failed init() or run).  The cookies of the context change at the load of init(),
\* during a navigation, with the creation and the closing of the context, and in the
\* cleanup of navigateWithRetry's onRetry, which clears and reloads them from the
\* second retry on.
C9_MutationPoints ==
    [][/\ (blob' # blob \/ file' # file)
            => /\ pc \in {"gp_extract", "close_save"}
               /\ contextRef
               /\ blob' = file'
               /\ blob' = {c \in contextJar : c # "ext"}
       /\ contextJar' # contextJar
            => \/ pc \in {"init_context", "init_cookies", "nav_goto", "gp_goto",
                          "close_context"}
               \/ pc = "wr_onretry" /\ wrFn = "navigate" /\ wrAttempt > 1]_vars

\* The close() inside a failed init() has rewritten the blob.
C9_Witness ==
    /\ pc = "close_page"
    /\ Head(stack) = "init_rethrow"
    /\ "cookies" \in closeTried
    /\ blob # InitialBlob
    /\ blob = file

(***************************************************************************)
(* Diagnostics                                                             *)
(***************************************************************************)
\* C11: a failing diagnostic capture changes nothing of the outcome: when getProducts
\* settles after its diagnostics failed, it throws the error its try block caught; and
\* a failing screenshot inside the onRetry hook of navigateWithRetry or executeWithRetry
\* leaves the error of the attempt in place and the retry sequence goes on to its delay.
C11_DiagnosticsNeverMask ==
    /\ (pc = "op_done" /\ diagErr.from = "diagnostics")
         => (ret = savedErr /\ ret # OK /\ ret.from # "diagnostics")
    /\ diagErr.from = "onRetryScreenshot"
         => (pc = "wr_delay" /\ ~wrHookErr /\ ret # OK /\ ret.from # "onRetryScreenshot")

\* getProducts has thrown the timeout of its navigation although its diagnostics
\* failed as well.
C11_Witness ==
    /\ pc = "op_done"
    /\ diagErr \in PageErrors("diagnostics")
    /\ ret.from = "goto"
    /\ ret = savedErr

(***************************************************************************)
(* One page, one context, one engine                                       *)
(***************************************************************************)
\* C12: while the scheduled check is using the page it took from the controller, that
\* page stays open and no other task is using it.
C12_PageExclusiveToCheck ==
    tasks["check"].pc = "using"
      => /\ IsOpen("page", tasks["check"].page)
         /\ ~(tasks["command"].pc = "using" /\ tasks["command"].page = tasks["check"].page)

\* C13: at most one browser engine, one context and one page created by the controller
\* are open at any time.
C13_AtMostOneOfEach ==
    /\ Cardinality(Open("browser")) <= 1
    /\ Cardinality(Open("context")) <= 1
    /\ Cardinality(Open("page")) <= 1

(***************************************************************************)
(* CaptchaDetected and the not-initialised error                           *)
(***************************************************************************)
\* C14: a CaptchaDetected raised by the handler is never the error of an attempt that
\* withRetry retries: with it as the last result withRetry is never at its hook, its
\* delay or the start of another attempt; and when it is the first failure, the
\* caller gets it after one invocation, no onRetry call and no sleep.
C14_CaptchaNeverRetried ==
    ret.msg = MsgCaptcha
      => /\ pc \notin {"wr_onretry", "wr_delay", "wr_loop", "nav_goto", "exec_action"}
         /\ (pc = "op_done" /\ wrRetryable = 0)
              => (wrCalls <= 1 /\ wrOnRetry = 0 /\ wrSleeps = 0)

\* navigateWithRetry has thrown CaptchaDetected after one navigation although retries
\* were left.
C14_Witness ==
    /\ pc = "op_done"
    /\ wrFn = "navigate"
    /\ ret.msg = MsgCaptcha
    /\ ret.from = "handler"
    /\ wrCalls = 1
    /\ AttemptsGranted > 1
    /\ wrOnRetry = 0
    /\ wrSleeps = 0

\* The entry of a method that needs the page.
NeedsPage == pc \in {"nav_enter", "exec_enter", "shot_enter", "html_enter", "getpage"}

\* C15: navigateWithRetry, executeWithRetry, takeScreenshot, savePageHtml and getPage,
\* entered while no page exists, throw the not-initialised error as their next step:
\* withRetry is not entered, nothing is invoked, no hook runs and nothing is slept.
C15_NotInitialisedAtOnce ==
    [][(NeedsPage /\ ~pageRef)
         => /\ pc' = Head(stack)
            /\ stack' = Tail(stack)
            /\ ret'.msg = MsgPageNotInit
            /\ UNCHANGED <<wrFn, wrCalls, wrOnRetry, wrSleeps, page, ctlVars, cookieVars>>]_vars

\* takeScreenshot has thrown the not-initialised error after a close().
C15_Witness ==
    /\ pc = "op_done"
    /\ ret = Err(MsgPageNotInit, 0, "takeScreenshot")
    /\ ~pageRef
    /\ wrCalls = 0
    /\ wrSleeps = 0

(***************************************************************************)
(* The human-motion layer                                                  *)
(***************************************************************************)
\* C10: no call settles with a failure of the human-motion layer: such a failure
\* neither fails an attempt of navigateWithRetry or executeWithRetry nor getProducts.
C10_MotionFailureContained == ret.from # "motion"

(***************************************************************************)
(* withRetry: order, hook, delays, result                                  *)
(***************************************************************************)
\* The events of one kind, in the order they happened.
Events(ev) == SelectSeq(wrLog, LAMBDA x : x.ev = ev)

\* The options withRetry works with.
Effective == MergeOptions(wrOpt)

\* C16: between a failed attempt and the next one withRetry calls onRetry, then
\* sleeps the delay it computed and handed to onRetry, and only then starts the next
\* attempt; an attempt that has started settles before anything else happens.
C16_HookSleepThenAttempt ==
    /\ \A i \in 1..Len(wrLog) :
         /\ (wrLog[i].ev = "call" /\ i > 1)
              => /\ i > 3
                 /\ wrLog[i-1].ev = "sleep"
                 /\ wrLog[i-2].ev = "onRetry"
                 /\ wrLog[i-3].ev = "settle"
                 /\ wrLog[i-3].n = wrLog[i].n - 1
                 /\ wrLog[i-3].err.from # "result"
                 /\ wrLog[i-1].d = wrLog[i-2].d
         /\ (wrLog[i].ev = "call" /\ i < Len(wrLog))
              => (wrLog[i+1].ev = "settle" /\ wrLog[i+1].n = wrLog[i].n)
         /\ (wrLog[i].ev = "onRetry" /\ i < Len(wrLog))
              => wrLog[i+1].ev \in {"sleep", "throw"}
         /\ (wrLog[i].ev = "sleep" /\ i < Len(wrLog)) => wrLog[i+1].ev = "call"
    /\ pc = "rt_fn" => wrLog[Len(wrLog)].ev = "call"
    /\ pc = "rt_delay" => wrLog[Len(wrLog)].ev = "onRetry"

\* The second attempt is running: a hook call and a sleep lie behind it.
C16_Witness ==
    /\ pc = "rt_fn"
    /\ wrCalls = 2
    /\ wrOnRetry = 1
    /\ wrSleeps = 1
    /\ wrDelayMs > 0

\* C17 as stated: when withRetry has ended, onRetry has been called once less than
\* the action.
C17_OncePerRetry == pc = "rt_done" => wrOnRetry = wrCalls - 1

\* C17: onRetry is called only after an invocation that failed with a retryable
\* error while retries were left; its k-th call gets that (k-th) invocation's error,
\* the number k and the delay computed for it, which is the delay of the k-th sleep.
\* When every hook call has returned, onRetry has been called once less than the
\* action; when a hook call throws, withRetry throws that error without sleeping, and
\* onRetry has then been called as often as the action.
C17_HookCalls ==
    /\ wrOnRetry = Len(Events("onRetry"))
    /\ \A k \in 1..Len(Events("onRetry")) :
         /\ Events("onRetry")[k].n = k
         /\ Events("onRetry")[k].err = Events("settle")[k].err
         /\ Events("settle")[k].n = k
         /\ k <= Len(Events("sleep")) => Events("sleep")[k].d = Events("onRetry")[k].d
    /\ \A i \in 1..Len(wrLog) :
         wrLog[i].ev = "onRetry"
           => /\ i > 1
              /\ wrLog[i-1].ev = "settle"
              /\ wrLog[i-1].err.from # "result"
              /\ IsRetryable(wrOpt, wrLog[i-1].err)
              /\ wrLog[i-1].n <= Effective.maxRetries
    /\ (pc = "rt_done" /\ ~wrHookErr) => (wrOnRetry = wrCalls - 1 /\ wrSleeps = wrOnRetry)
    /\ (pc = "rt_done" /\ wrHookErr)
         => /\ wrOnRetry = wrCalls
            /\ wrSleeps = wrOnRetry - 1
            /\ ret = Err(MsgHook, 0, "onRetry")

\* Three invocations, the third one settled the call; the hook ran twice and returned.
C17_Witness ==
    /\ pc = "rt_done"
    /\ ~wrHookErr
    /\ wrCalls = 3
    /\ wrOnRetry = 2
    /\ Events("onRetry")[2].n = 2
    /\ Events("onRetry")[1].err # Events("onRetry")[2].err

C19_JitterClampedToMaxDelay ==
    Effective.jitter
      => \A k \in 1..Len(Events("sleep")) :
            /\ Events("sleep")[k].d <= Effective.maxDelayMs
            /\ 10 * Events("sleep")[k].d
                 <= 13 * Effective.initialDelayMs * Pow(Effective.backoffFactor, k - 1)

\* C20: an invocation that resolves is the last one: withRetry returns that
\* invocation's value, the action has been invoked exactly as often as the number of
\* that invocation, which is at most maxRetries + 1, and nothing follows the return.
C20_FirstSuccessReturned ==
    /\ \A i \in 1..Len(wrLog) :
         (wrLog[i].ev = "settle" /\ wrLog[i].err.from = "result")
           => /\ wrLog[i].err = Result(wrLog[i].n)
              /\ wrCalls = wrLog[i].n
              /\ wrCalls <= Effective.maxRetries + 1
              /\ wrOnRetry = wrCalls - 1
              /\ pc \in {"rt_settle", "rt_done"}
              /\ pc = "rt_settle" => i = Len(wrLog)
              /\ pc = "rt_done"
                   => /\ Len(wrLog) = i + 1
                      /\ wrLog[i+1] = Event("return", wrLog[i].n, Result(wrLog[i].n), 0)
                      /\ ret = Result(wrLog[i].n)
    /\ \A i \in 1..Len(wrLog) :
         wrLog[i].ev = "return" => (i > 1 /\ wrLog[i-1].ev = "settle" /\ wrLog[i-1].err = wrLog[i].err)

\* The third invocation resolved after two retryable failures.
C20_Witness ==
    /\ pc = "rt_done"
    /\ ret = Result(3)
    /\ wrCalls = 3
    /\ wrSleeps = 2

(***************************************************************************)
(* handleAccessRestriction: nothing found                                  *)
(***************************************************************************)
\* C21: when the scan finds neither a challenge marker nor a restriction phrase, the
\* handler goes straight to its end with a normal result: it takes no evidence, moves
\* no mouse, clicks nothing and leaves page, cookies and controller as they are; and
\* it then returns normally.
C21_NoneIsNoOp ==
    /\ [][(pc = "h_scan" /\ ~page.marker /\ FirstIndicator(page.phrases) = "none")
            => /\ pc' = "h_end"
               /\ ret' = OK
               /\ hDetected' = "none"
               /\ hClicks' = 0
               /\ ~hProbed'
               /\ UNCHANGED <<page, stack, cookieVars, ctlVars, diagErr>>]_vars
    /\ [][(pc = "h_end" /\ hDetected = "none")
            => (ret' = OK /\ pc' = Head(stack) /\ UNCHANGED <<cookieVars, ctlVars>>)]_vars

\* The scan of a page without marker and phrase has ended the handler.
C21_Witness ==
    /\ pc = "h_end"
    /\ hDetected = "none"
    /\ hClicks = 0
    /\ ret = OK
    /\ wrFn = "navigate"
    /\ wrCalls = 1

(***************************************************************************)
(* close(): order of the teardown                                          *)
(***************************************************************************)
\* C22: close() has settled its cookie step before it closes anything, it starts on
\* the context only when the page step is over with the page gone, and on the browser
\* only when page and context are gone; a step is entered only after the one before it
\* has completed, and the cookie step closes nothing.
C22_TeardownInOrder ==
    /\ pc = "close_page"
         => (closeTried \subseteq {"cookies"} /\ (contextRef => "cookies" \in closeTried))
    /\ pc = "close_context"
         => (~pageRef /\ closeTried \cap {"context", "browser"} = {})
    /\ pc = "close_browser"
         => (~pageRef /\ ~contextRef /\ "browser" \notin closeTried)
    /\ pc \in {"close_page", "close_context", "close_browser", "close_end"}
         => /\ "context" \in closeTried => ("page" \notin closeFailed /\ ~pageRef)
            /\ "browser" \in closeTried
                 => (closeFailed \cap {"page", "context"} = {} /\ ~pageRef /\ ~contextRef)
            /\ "page" \in closeTried => "cookies" \in closeTried

\* A full teardown: cookies saved, then page, context and browser closed.
C22_Witness ==
    /\ pc = "close_end"
    /\ closeTried = {"cookies", "page", "context", "browser"}
    /\ closeFailed = {}
    /\ ~pageRef /\ ~contextRef /\ ~browserRef
    /\ file = blob

(***************************************************************************)
(* init(): order of the steps                                              *)
(***************************************************************************)
\* The steps of a complete init(), in the order the claim gives them.
InitOrder == <<"launch", "context", "sessionScript", "injector", "cookies", "page">>

\* The first n steps of the order.
InitPrefix(n) == SubSeq(InitOrder, 1, n)

\* The preload navigation of init() is under way.
InPreload == \E i \in 1..Len(stack) : stack[i] = "init_preloaded"

C24_ScrollTerminates == <>(scroll.pc = "done")

(***************************************************************************)
(* hoverElementHumanLike, clickElementHumanLike: the soft miss             *)
(***************************************************************************)
\* C25: neither helper raises; a helper that could not locate the element, or one of
\* whose page or mouse operations failed, returns false; and a click whose hover did
\* not succeed sends no mouse-button event.
C25_SoftMiss ==
    /\ pointer.result \in {"none", "true", "false"}
    /\ pointer.hover \in {"none", "true", "false"}
    /\ (pointer.pc = "done" /\ (pointer.miss # "none" \/ pointer.err # OK))
         => pointer.result = "false"
    /\ pointer.hover # "true"
         => \A i \in 1..Len(pointer.events) : pointer.events[i] \notin {"down", "up"}
    /\ (pointer.pc = "done" /\ pointer.result = "true" /\ pointer.fn = "click")
         => (pointer.hover = "true" /\ pointer.miss = "none" /\ pointer.err = OK)

\* A click whose selector wait timed out returned false without touching a button.
C25_Witness ==
    /\ pointer.pc = "done"
    /\ pointer.fn = "click"
    /\ pointer.miss = "timeout"
    /\ pointer.result = "false"
    /\ pointer.events = <<>>

(***************************************************************************)
(* typeHumanLike: what the key presses spell                               *)
(***************************************************************************)
\* What a field holds after the key presses ks: a Backspace removes the key before it.
RECURSIVE Typed(_)
Typed(ks) ==
    IF ks = <<>> THEN <<>>
    ELSE LET before == Typed(SubSeq(ks, 1, Len(ks) - 1))
             k == ks[Len(ks)]
         IN  IF k = "Backspace"
               THEN (IF before = <<>> THEN <<>> ELSE SubSeq(before, 1, Len(before) - 1))
               ELSE Append(before, k)

\* Letters and digits.
LettersAndDigits == {"a", "q", "Q", "0"}

\* C26: the key presses of a call that returned spell the text once every Backspace
\* has removed the key before it; at every moment they spell the part of the text
\* typed so far, with at most one wrong key awaiting its Backspace; every Backspace
\* follows one wrong key typed for a letter or digit and is followed by that
\* character.
C26_PressesSpellText ==
    /\ (keys.pc = "done" /\ keys.result = "ok") => Typed(keys.pressed) = keys.text
    /\ keys.pc \in {"loop", "press"}
         => \/ Typed(keys.pressed) = SubSeq(keys.text, 1, Len(Typed(keys.pressed)))
            \/ /\ Len(keys.todo) = 2
               /\ keys.todo[1] = "Backspace"
               /\ Typed(Append(keys.pressed, "Backspace")) = SubSeq(keys.text, 1, keys.i)
    /\ \A j \in 1..Len(keys.pressed) :
         keys.pressed[j] = "Backspace"
           => LET char == keys.text[Len(Typed(SubSeq(keys.pressed, 1, j))) + 1]
              IN  /\ j > 1
                  /\ keys.pressed[j-1] \notin {"Backspace", char}
                  /\ char \in LettersAndDigits
                  /\ j < Len(keys.pressed) => keys.pressed[j+1] = char

\* A text typed with a mistype on its upper-case letter and on its digit.
C26_Witness ==
    /\ keys.pc = "done"
    /\ keys.result = "ok"
    /\ keys.text = <<"Q", " ", "0">>
    /\ keys.pressed = <<"w", "Backspace", "Q", " ", "-", "Backspace", "0">>

(***************************************************************************)
(* The injected script                                                     *)
(***************************************************************************)
\* C27: the injected script never throws, and every override whose own needs the
\* host meets is applied, whatever failed before it.
C27_NeverThrowsOthersApplied ==
    /\ injector.pc # "thrown"
    /\ injector.pc = "done"
         => \A k \in DOMAIN Overrides :
               Overrides[k].needs \notin injector.failing
                 => Overrides[k].name \in injector.applied

Scaled(p) == [x |-> p.x * path.den, y |-> p.y * path.den]

\* C30: the path returned by createBezierPath has start as its first point and end as
\* its last point and, unless start equals end, at least 10 points.
C30_PathEnds ==
    path.pc = "done"
      => /\ path.points # <<>>
         /\ path.points[1] = Scaled(path.start)
         /\ path.points[Len(path.points)] = Scaled(path.end)
         /\ path.start # path.end => Len(path.points) >= 10

\* A returned path over two control points drawn off the straight line, longer than the
\* least length.
C30_Witness ==
    /\ path.pc = "done"
    /\ path.start # path.end
    /\ Len(path.controlPoints) = 2
    /\ path.randomness > 0
    /\ path.numPoints > 10
    /\ Len(path.points) = path.numPoints + 1

(***************************************************************************)
(* createMultiSegmentPath: the length, the ends and the waypoints          *)
(***************************************************************************)
\* The point pt of a path is the pixel p.
IsPixel(pt, p) == pt.x = p.x * pt.den /\ pt.y = p.y * pt.den

\* C31: for start equal to end the path returned is a single point.
C31_ZeroLengthSinglePoint ==
    (multi.pc = "done" /\ multi.start = multi.end) => Len(multi.fullPath) = 1

\* C32: the path returned by createMultiSegmentPath has start as its first point and end
\* as its last point, on the single-curve branch and for every number of segments.
C32_MultiPathEnds ==
    multi.pc = "done"
      => /\ multi.fullPath # <<>>
         /\ IsPixel(multi.fullPath[1], multi.start)
         /\ IsPixel(multi.fullPath[Len(multi.fullPath)], multi.end)

\* A returned path of three segments through two waypoints off the straight line.
C32_Witness ==
    /\ multi.pc = "done"
    /\ multi.branch = "segments"
    /\ multi.segmentCount = 3
    /\ multi.waypoints[2] # WaypointBase(multi.start, multi.end, 1, 3)
    /\ Len(multi.fullPath) > 30

\* C33: off the single-curve branch there are 1 to 3 waypoints between start and end,
\* each within 0.2 * complexity * distance of the straight line on each axis.
C33_OneToThreeWaypoints ==
    (multi.branch = "segments" /\ multi.pc \in {"segments", "done"})
      => /\ Len(multi.waypoints) - 2 \in 1..3
         /\ \A j \in 2..(Len(multi.waypoints) - 1) :
               LET base == WaypointBase(multi.start, multi.end, j - 1, multi.segmentCount)
                   bound == RandomFactor(multi.distance, multi.complexity)
               IN  /\ multi.waypoints[j].x - base.x \in (0 - bound)..bound
                   /\ multi.waypoints[j].y - base.y \in (0 - bound)..bound

(***************************************************************************)
(* handleAccessRestriction: a normal return after a detection              *)
(***************************************************************************)
\* C34: when the handler has detected a challenge, by the marker or by a phrase, and
\* returns normally, the page holds neither the marker nor any of the phrases that
\* detection looks for, whatever was raised during the recovery.
C34_NormalReturnMeansCleared ==
    (pc = "h_end" /\ hDetected # "none" /\ ret = OK)
      => (~page.marker /\ FirstIndicator(page.phrases) = "none")

(***************************************************************************)
(* SchedulerService                                                        *)
(***************************************************************************)
\* C35: a scheduler that is not running (never started, or stopped and not started
\* again) has no timer pending, so that no timer invokes the callback after stop().
C35_StoppedHasNoTimer ==
    ~sched.isRunning => sched.timers = {}

\* C36: at most one invocation of the callback is in progress.
C36_OneRunAtATime ==
    RunsInProgress(sched) <= 1

\* C37: a running scheduler has a timer pending or an invocation of the callback in
\* progress.
C37_RunningHasNextRun ==
    sched.isRunning => (sched.timers # {} \/ RunsInProgress(sched) > 0)

(***************************************************************************)
(* init(): what a failed init() leaves behind                              *)
(***************************************************************************)
\* C38: when the catch block of init() has run close() and is about to rethrow, the
\* page, the context and the browser are closed and their references are null.
C38_FailedInitLeavesNothingOpen ==
    pc = "init_rethrow" => (~pageRef /\ ~contextRef /\ ~browserRef)

(***************************************************************************)
(* The cookie text: written and read back                                  *)
(***************************************************************************)
\* Name, value, domain and path of a cookie.
Identity(c) == [name |-> c.name, value |-> c.value, domain |-> c.domain, path |-> c.path]

\* C39: the jar read back from the text that saveCookiesToFile wrote has the cookies
\* that were saved, with the same name, value, domain and path.
C39_RoundTrip ==
    codec.pc = "loaded"
      => /\ Len(codec.loaded) = Len(codec.jar)
         /\ \A i \in 1..Len(codec.jar) :
               Identity(codec.loaded[i]) = Identity(codec.jar[i])

====
